---- MODULE Spec2Model ----
(***************************************************************************)
(* Karel grid-robot toolchain: the world engine (engine.ts), the tokenizer, *)
(* the parser of the text and document forms and the condition evaluator   *)
(* (terminalLang.ts), the bytecode compiler and the single-step virtual    *)
(* machine (vm.ts), with the level construction helpers (levels.ts).       *)
(* Indices are 0-based as in the source: vm.pc, every jump target and the  *)
(* parser's position index their arrays from 0.                            *)
(***************************************************************************)
EXTENDS Integers, Sequences, FiniteSets, TLC

VARIABLES
    s,        \* the Simulation State (engine.ts State) the caller owns
    vm,       \* the VM (vm.ts VM): pc, instr, done
    op,       \* the operation called last ("init" after construction)
    err,      \* the code of the error the last call threw, or "none"
    ret,      \* the line the last stepVM call returned (NoLine for null)
    s0,       \* the Simulation State at construction
    program,  \* the statement sequence handed to compile
    tw,       \* the reference tree-walking interpreter: k, s, err
    vmTrace,  \* actions and conditions the VM has executed (last MaxTrace)
    twTrace,  \* actions and conditions the tree walker has executed
    vmLines,  \* the lines returned by stepVM (last MaxTrace)
    src,      \* the file handed to parseScript: its text, its JSON value
    result,   \* what the last call of a pure function returned
    heap,     \* the objects a Simulation State is made of, by reference
    refs,     \* the references of the States in the heap, the original first
    parseError,  \* the game shell's parseError ("none" for null)
    running,     \* the game shell's running flag
    activeLine   \* the game shell's activeLine (NoLine for null)

vars == <<s, vm, op, err, ret, s0, program, tw, vmTrace, twTrace, vmLines, src, result, heap, refs,
          parseError, running, activeLine>>

----------------------------------------------------------------------------
(* Bounds of the model *)

GridW == 2
GridH == 3
MaxSteps == 3
MaxBag == 1
MaxTrace == 6
MaxWalls == 2
MaxNodes == 3

NoLine == -1

----------------------------------------------------------------------------
(* engine.ts *)

Dirs == {"N", "E", "S", "W"}

keyXY(x, y) == <<x, y>>

keyWall(x, y, dir) == <<x, y, dir>>

inBounds(w, x, y) == x >= 0 /\ y >= 0 /\ x < w.width /\ y < w.height

turnLeft(d) == IF d = "N" THEN "W" ELSE IF d = "W" THEN "S" ELSE IF d = "S" THEN "E" ELSE "N"

turnRight(d) == IF d = "N" THEN "E" ELSE IF d = "E" THEN "S" ELSE IF d = "S" THEN "W" ELSE "N"

forwardDelta(d) ==
    IF d = "N" THEN [dx |-> 0, dy |-> -1]
    ELSE IF d = "E" THEN [dx |-> 1, dy |-> 0]
    ELSE IF d = "S" THEN [dx |-> 0, dy |-> 1]
    ELSE [dx |-> -1, dy |-> 0]

oppositeDir(d) == IF d = "N" THEN "S" ELSE IF d = "S" THEN "N" ELSE IF d = "E" THEN "W" ELSE "E"

isDirClearNoBounds(state, dir) ==
    LET nx == state.robot.x + forwardDelta(dir).dx
        ny == state.robot.y + forwardDelta(dir).dy
    IN  IF keyWall(state.robot.x, state.robot.y, dir) \in state.world.walls THEN FALSE
        ELSE IF keyWall(nx, ny, oppositeDir(dir)) \in state.world.walls THEN FALSE
        ELSE TRUE

isDirClearNoMirror(state, dir) ==
    LET nx == state.robot.x + forwardDelta(dir).dx
        ny == state.robot.y + forwardDelta(dir).dy
    IN  IF ~inBounds(state.world, nx, ny) THEN FALSE
        ELSE IF keyWall(state.robot.x, state.robot.y, dir) \in state.world.walls THEN FALSE
        ELSE TRUE

isDirClear(state, dir) ==
    LET nx == state.robot.x + forwardDelta(dir).dx
        ny == state.robot.y + forwardDelta(dir).dy
    IN  IF ~inBounds(state.world, nx, ny) THEN FALSE
        ELSE IF keyWall(state.robot.x, state.robot.y, dir) \in state.world.walls THEN FALSE
        ELSE IF keyWall(nx, ny, oppositeDir(dir)) \in state.world.walls THEN FALSE
        ELSE TRUE

isFrontClear(state) == isDirClear(state, state.robot.dir)

isLeftClear(state) == isDirClear(state, turnLeft(state.robot.dir))

isRightClear(state) == isDirClear(state, turnRight(state.robot.dir))

\* Map.get(k) ?? 0
beepersGet(b, k) == IF k \in DOMAIN b THEN b[k] ELSE 0

\* Map.set(k, n)
beepersSet(b, k, n) == [c \in (DOMAIN b) \cup {k} |-> IF c = k THEN n ELSE b[c]]

beepersHere(state) ==
    beepersGet(state.world.beepers, keyXY(state.robot.x, state.robot.y)) > 0

hasBeepersInBag(state) == state.robot.bag > 0

\* The outcome of a call: the state it leaves behind and the error it threw.
Ok(st) == [s |-> st, err |-> "none"]

Throw(st, code) == [s |-> st, err |-> code]

stepGuardCountsDown(st) ==
    IF st.stepCount >= st.maxSteps
    THEN Throw(st, "STEP_LIMIT")
    ELSE Ok([st EXCEPT !.maxSteps = @ - 1])

stepGuardIncrementFirst(st) ==
    IF st.stepCount + 1 > st.maxSteps
    THEN Throw([st EXCEPT !.stepCount = @ + 1], "STEP_LIMIT")
    ELSE Ok([st EXCEPT !.stepCount = @ + 1])

stepGuardOffByOne(st) ==
    IF st.stepCount > st.maxSteps
    THEN Throw(st, "STEP_LIMIT")
    ELSE Ok([st EXCEPT !.stepCount = @ + 1])

stepGuard(st) ==
    IF st.stepCount >= st.maxSteps
    THEN Throw(st, "STEP_LIMIT")
    ELSE Ok([st EXCEPT !.stepCount = @ + 1])

checkWinRecomputed(st) == [st EXCEPT !.won = (st.robot.y = 0)]

checkWinAlways(st) ==
    IF st.robot.y = 0
    THEN [st EXCEPT !.won = TRUE, !.log = Append(@, "WIN")]
    ELSE st

checkWinEarly(st) ==
    IF ~st.won /\ st.robot.y <= 1
    THEN [st EXCEPT !.won = TRUE, !.log = Append(@, "WIN")]
    ELSE st

checkWin(st) ==
    IF ~st.won /\ st.robot.y = 0
    THEN [st EXCEPT !.won = TRUE, !.log = Append(@, "WIN")]
    ELSE st

cmdMoveOneSided(st) ==
    LET g == stepGuard(st) IN
    IF g.err # "none" THEN g
    ELSE IF ~isDirClearNoMirror(g.s, g.s.robot.dir) THEN Throw(g.s, "MOVE_BLOCKED")
    ELSE LET d == forwardDelta(g.s.robot.dir)
             moved == [g.s EXCEPT !.robot.x = @ + d.dx, !.robot.y = @ + d.dy]
         IN  Ok(checkWin(moved))

cmdMove(st) ==
    LET g == stepGuard(st) IN
    IF g.err # "none" THEN g
    ELSE IF ~isFrontClear(g.s) THEN Throw(g.s, "MOVE_BLOCKED")
    ELSE LET d == forwardDelta(g.s.robot.dir)
             moved == [g.s EXCEPT !.robot.x = @ + d.dx, !.robot.y = @ + d.dy]
         IN  Ok(checkWin(moved))

cmdTurnLeft(st) ==
    LET g == stepGuard(st) IN
    IF g.err # "none" THEN g
    ELSE Ok([g.s EXCEPT !.robot.dir = turnLeft(@)])

cmdTurnRight(st) ==
    LET g == stepGuard(st) IN
    IF g.err # "none" THEN g
    ELSE Ok([g.s EXCEPT !.robot.dir = turnRight(@)])

cmdPickUnchecked(st) ==
    LET g == stepGuard(st) IN
    IF g.err # "none" THEN g
    ELSE LET k == keyXY(g.s.robot.x, g.s.robot.y)
             n == beepersGet(g.s.world.beepers, k)
         IN  Ok([g.s EXCEPT !.world.beepers = beepersSet(@, k, n - 1),
                            !.robot.bag = @ + 1])

cmdPick(st) ==
    LET g == stepGuard(st) IN
    IF g.err # "none" THEN g
    ELSE LET k == keyXY(g.s.robot.x, g.s.robot.y)
             n == beepersGet(g.s.world.beepers, k)
         IN  IF n <= 0 THEN Throw(g.s, "NO_BEEPER_HERE")
             ELSE Ok([g.s EXCEPT !.world.beepers = beepersSet(@, k, n - 1),
                                 !.robot.bag = @ + 1])

cmdPutDecrementFirst(st) ==
    LET g == stepGuard(st)
        taken == [g.s EXCEPT !.robot.bag = @ - 1]
    IN  IF g.err # "none" THEN g
        ELSE IF g.s.robot.bag <= 0 THEN Throw(taken, "NO_BEEPER_IN_BAG")
        ELSE LET k == keyXY(g.s.robot.x, g.s.robot.y)
                 n == beepersGet(g.s.world.beepers, k)
             IN  Ok([taken EXCEPT !.world.beepers = beepersSet(@, k, n + 1)])

cmdPut(st) ==
    LET g == stepGuard(st) IN
    IF g.err # "none" THEN g
    ELSE IF g.s.robot.bag <= 0 THEN Throw(g.s, "NO_BEEPER_IN_BAG")
    ELSE LET k == keyXY(g.s.robot.x, g.s.robot.y)
             n == beepersGet(g.s.world.beepers, k)
         IN  Ok([g.s EXCEPT !.world.beepers = beepersSet(@, k, n + 1),
                            !.robot.bag = @ - 1])

canStepOneSided(world, x, y, nx, ny) ==
    IF ~inBounds(world, nx, ny) THEN FALSE
    ELSE IF ~(\/ (nx = x /\ ny = y - 1) \/ (nx = x /\ ny = y + 1)
              \/ (nx = x + 1 /\ ny = y) \/ (nx = x - 1 /\ ny = y)) THEN FALSE
    ELSE LET dir == IF nx = x /\ ny = y - 1 THEN "N"
                    ELSE IF nx = x /\ ny = y + 1 THEN "S"
                    ELSE IF nx = x + 1 /\ ny = y THEN "E"
                    ELSE "W"
         IN  keyWall(x, y, dir) \notin world.walls

\* goalReachable's local canStep(x, y, nx, ny)
canStep(world, x, y, nx, ny) ==
    IF ~inBounds(world, nx, ny) THEN FALSE
    ELSE IF ~(\/ (nx = x /\ ny = y - 1) \/ (nx = x /\ ny = y + 1)
              \/ (nx = x + 1 /\ ny = y) \/ (nx = x - 1 /\ ny = y)) THEN FALSE
    ELSE LET dir == IF nx = x /\ ny = y - 1 THEN "N"
                    ELSE IF nx = x /\ ny = y + 1 THEN "S"
                    ELSE IF nx = x + 1 /\ ny = y THEN "E"
                    ELSE "W"
             opp == IF dir = "N" THEN "S" ELSE IF dir = "S" THEN "N"
                    ELSE IF dir = "E" THEN "W" ELSE "E"
         IN  IF keyWall(x, y, dir) \in world.walls THEN FALSE
             ELSE IF keyWall(nx, ny, opp) \in world.walls THEN FALSE
             ELSE TRUE

\* what a run of goalReachable's loop did: the value returned, the cells it
\* added to seen in that order, and the number of entries it took off q
Search(found, expanded, dequeued) ==
    [found |-> found, expanded |-> expanded, dequeued |-> dequeued]

\* goalReachable's while (q.length) loop over the queue q and the set seen
RECURSIVE goalReachableLoop(_, _, _, _, _)
goalReachableLoop(world, q, seen, expanded, dequeued) ==
    IF q = <<>> THEN Search(FALSE, expanded, dequeued)
    ELSE LET cur == Head(q)
             k == keyXY(cur.x, cur.y)
         IN  IF k \in seen THEN goalReachableLoop(world, Tail(q), seen, expanded, dequeued + 1)
             ELSE IF cur.y = 0 THEN Search(TRUE, Append(expanded, k), dequeued + 1)
             ELSE LET seen2 == seen \cup {k}
                      nbs == << [x |-> cur.x, y |-> cur.y - 1],
                                [x |-> cur.x, y |-> cur.y + 1],
                                [x |-> cur.x - 1, y |-> cur.y],
                                [x |-> cur.x + 1, y |-> cur.y] >>
                      pushed == SelectSeq(nbs, LAMBDA nb :
                                    /\ keyXY(nb.x, nb.y) \notin seen2
                                    /\ canStep(world, cur.x, cur.y, nb.x, nb.y))
                  IN  goalReachableLoop(world, Tail(q) \o pushed, seen2,
                                        Append(expanded, k), dequeued + 1)

\* the loop started as goalReachable starts it
goalReachableRun(st) ==
    goalReachableLoop(st.world, << [x |-> st.robot.x, y |-> st.robot.y] >>, {}, <<>>, 0)

goalReachable(st) == goalReachableRun(st).found

----------------------------------------------------------------------------
(* engine.ts: cloneState.  The objects a State is made of (the State   *)
(* object, its world, the wall Set, the beeper Map, the robot, the log   *)
(* array) live in the heap, a sequence indexed by reference; the engine  *)
(* writes through the references of the State it is given.               *)

\* the heap with one more object; its reference is the new length
alloc(h, obj) == Append(h, obj)

\* the State object at ref, read through its references
read(h, ref) ==
    LET o == h[ref]
        w == h[o.world]
    IN  [world |-> [width |-> w.width, height |-> w.height,
                    walls |-> h[w.walls], beepers |-> h[w.beepers]],
         robot |-> h[o.robot],
         stepCount |-> o.stepCount,
         maxSteps |-> o.maxSteps,
         log |-> h[o.log],
         won |-> o.won]

\* the heap after the engine has left the State at ref as st: it assigns
\* fields of the objects the State refers to and replaces no reference
write(h, ref, st) ==
    LET o == h[ref]
        w == h[o.world]
    IN  [h EXCEPT ![w.walls] = st.world.walls,
                  ![w.beepers] = st.world.beepers,
                  ![o.robot] = st.robot,
                  ![o.log] = st.log,
                  ![ref] = [@ EXCEPT !.stepCount = st.stepCount, !.won = st.won]]

\* a State built as an object literal, as makeDefaultLevel builds one
newState(st) ==
    LET h1 == alloc(<<>>, st.world.walls)
        h2 == alloc(h1, st.world.beepers)
        h3 == alloc(h2, st.robot)
        h4 == alloc(h3, [width |-> st.world.width, height |-> st.world.height,
                         walls |-> Len(h1), beepers |-> Len(h2)])
        h5 == alloc(h4, st.log)
    IN  alloc(h5, [world |-> Len(h4), robot |-> Len(h3), stepCount |-> st.stepCount,
                   maxSteps |-> st.maxSteps, log |-> Len(h5), won |-> st.won])

\* what a call that allocates returns: the heap and the new reference
Allocated(h) == [heap |-> h, ref |-> Len(h)]

\* { ...s }: a new State object that refers to the same world, robot and log
cloneStateShallow(h, ref) == Allocated(alloc(h, h[ref]))

cloneState(h, ref) ==
    LET o == h[ref]
        w == h[o.world]
        h1 == alloc(h, h[w.walls])
        h2 == alloc(h1, h[w.beepers])
        h3 == alloc(h2, [width |-> w.width, height |-> w.height,
                         walls |-> Len(h1), beepers |-> Len(h2)])
        h4 == alloc(h3, h[o.robot])
        h5 == alloc(h4, h[o.log])
    IN  Allocated(alloc(h5, [world |-> Len(h3), robot |-> Len(h4),
                             stepCount |-> o.stepCount, maxSteps |-> o.maxSteps,
                             log |-> Len(h5), won |-> o.won]))

----------------------------------------------------------------------------
(* terminalLang.ts: conditions and statements *)

Atom(name) == [t |-> "ATOM", name |-> name]

Not(c) == [t |-> "NOT", inner |-> c]

And(l, r) == [t |-> "AND", left |-> l, right |-> r]

Or(l, r) == [t |-> "OR", left |-> l, right |-> r]

Cmd(name, line) == [t |-> "CMD", name |-> name, line |-> line]

\* an IF without the optional else field
If(c, th, line) == [t |-> "IF", cond |-> c, then |-> th, line |-> line]

IfElse(c, th, el, line) == [t |-> "IF", cond |-> c, then |-> th, else |-> el, line |-> line]

While(c, body, line) == [t |-> "WHILE", cond |-> c, body |-> body, line |-> line]

RECURSIVE evalCond(_, _)
evalCond(c, st) ==
    IF c.t = "NOT" THEN ~evalCond(c.inner, st)
    ELSE IF c.t = "AND" THEN evalCond(c.left, st) /\ evalCond(c.right, st)
    ELSE IF c.t = "OR" THEN evalCond(c.left, st) \/ evalCond(c.right, st)
    ELSE IF c.name = "obstacleAhead" THEN ~isFrontClear(st)
    ELSE IF c.name = "obstacleLeft" THEN ~isLeftClear(st)
    ELSE IF c.name = "obstacleRight" THEN ~isRightClear(st)
    ELSE IF c.name = "goalReachable" THEN goalReachable(st)
    ELSE IF c.name = "won" THEN st.won
    ELSE IF c.name = "notAtLine8" THEN ~st.won
    ELSE IF c.name = "beepersHere" THEN beepersHere(st)
    ELSE hasBeepersInBag(st)

----------------------------------------------------------------------------
(* terminalLang.ts: the tokenizer *)

\* what a parsing function leaves behind: the value it returned and the
\* parser's position p after it, or the message of the Error it threw
Parsed(v, p) == [ok |-> TRUE, v |-> v, p |-> p, err |-> "none"]

Failed(msg) == [ok |-> FALSE, v |-> <<>>, p |-> 0, err |-> msg]

\* src.slice(a, b) of a text held as a sequence of characters, as a string
RECURSIVE slice(_, _, _)
slice(chars, a, b) ==
    IF a >= b \/ a >= Len(chars) THEN "" ELSE chars[a + 1] \o slice(chars, a + 1, b)

\* the token sequence of a text, ending in eof; eol and eof tokens have no v
tokenize(text) ==
    LET isWs(ch) == ch \in {" ", "\t", "\r"}
        isAlpha(ch) ==
            ch \in {"A", "B", "C", "D", "E", "F", "G", "H", "I", "J", "K", "L", "M",
                    "N", "O", "P", "Q", "R", "S", "T", "U", "V", "W", "X", "Y", "Z",
                    "a", "b", "c", "d", "e", "f", "g", "h", "i", "j", "k", "l", "m",
                    "n", "o", "p", "q", "r", "s", "t", "u", "v", "w", "x", "y", "z",
                    "_"}
        isAlnum(ch) ==
            isAlpha(ch) \/ ch \in {"0", "1", "2", "3", "4", "5", "6", "7", "8", "9"}
        at(i) == IF i < Len(text) THEN text[i + 1] ELSE ""
        \* while (i < src.length && src[i] !== "\n") i++
        lineEnd(i) ==
            CHOOSE j \in i..Len(text) :
                /\ j = Len(text) \/ at(j) = "\n"
                /\ \A k \in i..(j - 1) : at(k) # "\n"
        \* while (i < src.length && isAlnum(src[i])) i++
        idEnd(i) ==
            CHOOSE j \in i..Len(text) :
                /\ j = Len(text) \/ ~isAlnum(at(j))
                /\ \A k \in i..(j - 1) : isAlnum(at(k))
        tok(k, v, line) == [k |-> k, v |-> v, line |-> line]
        \* one pass of the while loop: the i, the line and the tokens it
        \* leaves (i = -1: it throws); none once the loop has ended
        pass(st) ==
            LET i == st.i
                line == st.line
                push(n, k, v) ==
                    [i |-> i + n, line |-> line, toks |-> Append(st.toks, tok(k, v, line))]
            IN  IF i < 0 \/ i >= Len(text) THEN st
                ELSE IF at(i) = "\n"
                THEN [i |-> i + 1, line |-> line + 1,
                      toks |-> Append(st.toks, tok("eol", "", line))]
                ELSE IF isWs(at(i)) THEN [st EXCEPT !.i = i + 1]
                ELSE IF at(i) = "/" /\ at(i + 1) = "/" THEN [st EXCEPT !.i = lineEnd(i + 2)]
                ELSE IF at(i) = "&" /\ at(i + 1) = "&" THEN push(2, "sym", "&&")
                ELSE IF at(i) = "|" /\ at(i + 1) = "|" THEN push(2, "sym", "||")
                ELSE IF at(i) \in {"{", "}", "(", ")", "=", ";", ".", "!"}
                THEN push(1, "sym", at(i))
                ELSE IF isAlpha(at(i))
                THEN push(idEnd(i + 1) - i, "id", slice(text, i, idEnd(i + 1)))
                ELSE [st EXCEPT !.i = -1]
        \* n passes, made in two halves so that the evaluation stays shallow
        RECURSIVE passes(_, _)
        passes(st, n) ==
            LET half == passes(st, n \div 2) IN
            IF n <= 1 THEN pass(st)
            ELSE IF half.i < 0 THEN half
            ELSE passes(half, n - (n \div 2))
        \* every pass advances i, so the loop ends within src.length passes
        end == passes([i |-> 0, line |-> 1, toks |-> <<>>], Len(text) + 1)
    IN  IF end.i < 0 THEN Failed("Unerwartetes Zeichen")
        ELSE Parsed(Append(end.toks, tok("eof", "", end.line)), 0)

----------------------------------------------------------------------------
(* terminalLang.ts: class Parser.  Each method is an operator of the token  *)
(* sequence and the position p; it returns Parsed with the position after  *)
(* what it consumed, or Failed.                                            *)

peek(toks, p) == toks[p + 1]

\* while (isEolTok(this.peek())) this.next(): the position after the eol run
skipEol(toks, p) ==
    CHOOSE q \in p..(Len(toks) - 1) :
        /\ peek(toks, q).k # "eol"
        /\ \A k \in p..(q - 1) : peek(toks, k).k = "eol"

\* the position after the symbol v when it is next, else p itself
acceptSym(toks, p, v) ==
    IF peek(toks, p).k = "sym" /\ peek(toks, p).v = v THEN p + 1 ELSE p

RECURSIVE parseCondUntil(_, _, _)
parseCondUntil(toks, p, endSym) ==
    LET RECURSIVE parseOr(_), orLoop(_), parseAnd(_), andLoop(_), parseNot(_), parseAtom(_)
        parseAtom(q) ==
            LET t == peek(toks, q)
                close(c) ==
                    IF ~c.ok THEN c
                    ELSE IF acceptSym(toks, c.p, ")") = c.p THEN Failed("Erwarte Symbol")
                    ELSE Parsed(c.v, c.p + 1)
            IN  IF t.k = "sym" /\ t.v = "(" THEN close(parseCondUntil(toks, q + 1, ")"))
                ELSE IF t.k = "id" THEN
                    IF t.v \in {"obstacleAhead", "obstacleLeft", "obstacleRight", "won",
                                "goalReachable", "notAtLine8", "beepersHere", "beeperInBag"}
                    THEN Parsed(Atom(t.v), q + 1)
                    ELSE Failed("Unbekannte Condition")
                ELSE IF t.k = "sym" /\ t.v = endSym THEN Failed("Leere Condition")
                ELSE Failed("Erwarte Condition")
        parseNot(q) ==
            LET negate(inner) == IF ~inner.ok THEN inner ELSE Parsed(Not(inner.v), inner.p)
            IN  IF peek(toks, q).k = "sym" /\ peek(toks, q).v = "!"
                THEN negate(parseNot(q + 1))
                ELSE parseAtom(q)
        andLoop(left) ==
            LET both(right) ==
                    IF ~right.ok THEN right ELSE andLoop(Parsed(And(left.v, right.v), right.p))
            IN  IF ~left.ok THEN left
                ELSE IF peek(toks, left.p).k = "sym" /\ peek(toks, left.p).v = "&&"
                THEN both(parseNot(left.p + 1))
                ELSE left
        parseAnd(q) == andLoop(parseNot(q))
        orLoop(left) ==
            LET either(right) ==
                    IF ~right.ok THEN right ELSE orLoop(Parsed(Or(left.v, right.v), right.p))
            IN  IF ~left.ok THEN left
                ELSE IF peek(toks, left.p).k = "sym" /\ peek(toks, left.p).v = "||"
                THEN either(parseAnd(left.p + 1))
                ELSE left
        parseOr(q) == orLoop(parseAnd(q))
    IN  parseOr(p)

parseCmdAny(toks, p) ==
    IF peek(toks, p).k # "id" THEN Failed("Erwarte Identifier")
    ELSE Parsed(Cmd(peek(toks, p).v, peek(toks, p).line), p + 1)

parseCmd(toks, p) ==
    IF peek(toks, p).k # "id" THEN Failed("Erwarte Identifier")
    ELSE IF peek(toks, p).v \notin {"forward", "turnLeft", "turnRight", "pick", "put"}
    THEN Failed("Unbekanntes Command")
    ELSE Parsed(Cmd(peek(toks, p).v, peek(toks, p).line), p + 1)

RECURSIVE parseStatementsUntil(_, _, _), parseStmt(_, _), parseIf(_, _), parseWhile(_, _)
RECURSIVE parseBlock(_, _)

\* the while (true) loop: ends only at endSym, one optional ';' after each
\* statement
parseStatementsUntil(toks, p, endSym) ==
    LET RECURSIVE loop(_, _)
        loop(q, stmts) ==
            LET push(st) ==
                    IF ~st.ok THEN st
                    ELSE loop(skipEol(toks, acceptSym(toks, skipEol(toks, st.p), ";")),
                              Append(stmts, st.v))
            IN  IF peek(toks, q).k = "sym" /\ peek(toks, q).v = endSym THEN Parsed(stmts, q)
                ELSE IF peek(toks, q).k = "eof" THEN Failed("Unerwartetes EOF")
                ELSE push(parseStmt(toks, q))
    IN  loop(skipEol(toks, p), <<>>)

parseStmt(toks, p) ==
    LET t == peek(toks, skipEol(toks, p)) IN
    IF t.k # "id" THEN Failed("Erwarte Statement")
    ELSE IF t.v = "if" THEN parseIf(toks, skipEol(toks, p))
    ELSE IF t.v = "while" THEN parseWhile(toks, skipEol(toks, p))
    ELSE parseCmd(toks, skipEol(toks, p))

\* if '(' cond ')' block, then else if ... or else block
parseIf(toks, p) ==
    LET line == peek(toks, p).line
        p1 == skipEol(toks, p + 1)
        \* otherwise = [elseIf] or the else block
        withElse(c, th, otherwise) ==
            IF ~otherwise.ok THEN otherwise
            ELSE Parsed(IfElse(c.v, th.v, otherwise.v, line), otherwise.p)
        single(elseIf) == IF elseIf.ok THEN Parsed(<<elseIf.v>>, elseIf.p) ELSE elseIf
        afterThen(c, th) ==
            LET p2 == skipEol(toks, th.p)
                p3 == skipEol(toks, p2 + 1)
            IN  IF ~th.ok THEN th
                ELSE IF peek(toks, p2).k = "id" /\ peek(toks, p2).v = "else" THEN
                    IF peek(toks, p3).k = "id" /\ peek(toks, p3).v = "if"
                    THEN withElse(c, th, single(parseIf(toks, p3)))
                    ELSE withElse(c, th, parseBlock(toks, p3))
                ELSE Parsed(If(c.v, th.v, line), p2)
        afterCond(c) ==
            IF ~c.ok THEN c
            ELSE IF acceptSym(toks, c.p, ")") = c.p THEN Failed("Erwarte Symbol")
            ELSE afterThen(c, parseBlock(toks, skipEol(toks, c.p + 1)))
    IN  IF ~(peek(toks, p).k = "id" /\ peek(toks, p).v = "if") THEN Failed("Erwarte Keyword")
        ELSE IF acceptSym(toks, p1, "(") = p1 THEN Failed("Erwarte Symbol")
        ELSE afterCond(parseCondUntil(toks, p1 + 1, ")"))

\* while '(' cond ')' block
parseWhile(toks, p) ==
    LET line == peek(toks, p).line
        p1 == skipEol(toks, p + 1)
        afterBody(c, body) ==
            IF ~body.ok THEN body ELSE Parsed(While(c.v, body.v, line), body.p)
        afterCond(c) ==
            IF ~c.ok THEN c
            ELSE IF acceptSym(toks, c.p, ")") = c.p THEN Failed("Erwarte Symbol")
            ELSE afterBody(c, parseBlock(toks, skipEol(toks, c.p + 1)))
    IN  IF ~(peek(toks, p).k = "id" /\ peek(toks, p).v = "while")
        THEN Failed("Erwarte Keyword")
        ELSE IF acceptSym(toks, p1, "(") = p1 THEN Failed("Erwarte Symbol")
        ELSE afterCond(parseCondUntil(toks, p1 + 1, ")"))

parseBlock(toks, p) ==
    LET p1 == skipEol(toks, p)
        close(stmts) ==
            IF ~stmts.ok THEN stmts
            ELSE IF acceptSym(toks, stmts.p, "}") = stmts.p THEN Failed("Erwarte Symbol")
            ELSE Parsed(stmts.v, stmts.p + 1)
    IN  IF acceptSym(toks, p1, "{") = p1 THEN Failed("Erwarte Symbol")
        ELSE close(parseStatementsUntil(toks, p1 + 1, "}"))

\* program ID { ... } with an optional ';', or program ID = ... ;
parseProgramAny(toks, p) ==
    LET p1 == skipEol(toks, p + 2)
        entry(stmts) == [name |-> peek(toks, p + 1).v, stmts |-> stmts]
        braced(stmts) ==
            IF ~stmts.ok THEN stmts
            ELSE IF acceptSym(toks, stmts.p, "}") = stmts.p THEN Failed("Erwarte Symbol")
            ELSE Parsed(entry(stmts.v), acceptSym(toks, skipEol(toks, stmts.p + 1), ";"))
        legacy(stmts) ==
            IF ~stmts.ok THEN stmts
            ELSE Parsed(entry(stmts.v), acceptSym(toks, stmts.p, ";"))
    IN  IF ~(peek(toks, p).k = "id" /\ peek(toks, p).v = "program")
        THEN Failed("Erwarte Keyword")
        ELSE IF peek(toks, p + 1).k # "id" THEN Failed("Erwarte Identifier")
        ELSE IF acceptSym(toks, p1, "{") # p1
        THEN braced(parseStatementsUntil(toks, p1 + 1, "}"))
        ELSE IF acceptSym(toks, p1, "=") = p1 THEN Failed("Erwarte Symbol")
        ELSE legacy(parseStatementsUntil(toks, skipEol(toks, p1 + 1), ";"))

\* active = ID
parseActive(toks, p) ==
    LET p1 == skipEol(toks, p + 1)
        p2 == skipEol(toks, p1 + 1)
    IN  IF ~(peek(toks, p).k = "id" /\ peek(toks, p).v = "active")
        THEN Failed("Erwarte Keyword")
        ELSE IF acceptSym(toks, p1, "=") = p1 THEN Failed("Erwarte Symbol")
        ELSE IF peek(toks, p2).k # "id" THEN Failed("Erwarte Identifier")
        ELSE Parsed(peek(toks, p2).v, p2 + 1)

\* the program declarations, then active=ID with an optional '.' and ';',
\* then nothing more; programs maps the names declared so far
parseStart(toks) ==
    LET RECURSIVE declarations(_, _)
        declarations(p, programs) ==
            LET declared(decl) ==
                    IF ~decl.ok THEN decl
                    ELSE declarations(skipEol(toks, decl.p),
                                      (decl.v.name :> decl.v.stmts) @@ programs)
                chosen(active) ==
                    LET rest == skipEol(toks, acceptSym(toks, acceptSym(toks,
                                    skipEol(toks, active.p), "."), ";"))
                    IN  IF ~active.ok THEN active
                        ELSE IF active.v \notin DOMAIN programs
                        THEN Failed("Unbekanntes active-Programm")
                        ELSE IF peek(toks, rest).k # "eof"
                        THEN Failed("Unerwarteter Inhalt nach active")
                        ELSE Parsed(programs[active.v], rest)
            IN  IF peek(toks, p).k = "id" /\ peek(toks, p).v = "program"
                THEN declared(parseProgramAny(toks, p))
                ELSE IF peek(toks, p).k = "id" /\ peek(toks, p).v = "active"
                THEN chosen(parseActive(toks, p))
                ELSE Failed("Keine active Definition gefunden")
    IN  declarations(skipEol(toks, 0), <<>>)

----------------------------------------------------------------------------
(* terminalLang.ts: the document form.  A JSON value is held with its type: *)
(* an object as a function of its keys, an array as a sequence, a string as *)
(* its sequence of characters.                                              *)

J(type, v) == [j |-> type, v |-> v]

\* node.key (undefined when the object has no such key)
get(node, key) == IF key \in DOMAIN node.v THEN node.v[key] ELSE J("undefined", <<>>)

\* a ?? b
orElse(a, b) == IF a.j \in {"null", "undefined"} THEN b ELSE a

\* String(node.t ?? node.type ?? "").toLowerCase(), for the comparisons with
\* the type names: only their letters need lowering, and the text of a value
\* that is not a string matches none of them
jsonType(node) ==
    LET x == orElse(get(node, "t"), get(node, "type"))
        lower == [ch \in {"C", "M", "D", "O", "V", "E", "W", "H", "I", "L", "F", "A",
                          "T", "N", "R"} |->
                     CASE ch = "C" -> "c" [] ch = "M" -> "m" [] ch = "D" -> "d"
                       [] ch = "O" -> "o" [] ch = "V" -> "v" [] ch = "E" -> "e"
                       [] ch = "W" -> "w" [] ch = "H" -> "h" [] ch = "I" -> "i"
                       [] ch = "L" -> "l" [] ch = "F" -> "f" [] ch = "A" -> "a"
                       [] ch = "T" -> "t" [] ch = "N" -> "n" [] ch = "R" -> "r"]
        lowered == [i \in 1..Len(x.v) |->
                       IF x.v[i] \in DOMAIN lower THEN lower[x.v[i]] ELSE x.v[i]]
    IN  IF x.j = "string" THEN slice(lowered, 0, Len(lowered)) ELSE ""

asCmdName(x) ==
    IF x.j = "string"
       /\ slice(x.v, 0, Len(x.v)) \in {"forward", "turnLeft", "turnRight", "pick", "put"}
    THEN Parsed(slice(x.v, 0, Len(x.v)), 0)
    ELSE Failed("JSON: Unbekanntes Command")

\* object conditions, and string conditions that hold no && and no ||
RECURSIVE jsonToCond(_)
jsonToCond(node) ==
    LET asAtomName(x) ==
            IF x.j = "string"
               /\ slice(x.v, 0, Len(x.v)) \in
                      {"obstacleAhead", "obstacleLeft", "obstacleRight", "won",
                       "goalReachable", "notAtLine8", "beepersHere", "beeperInBag"}
            THEN Parsed(Atom(slice(x.v, 0, Len(x.v))), 0)
            ELSE Failed("JSON: Unbekannte Condition")
        isSpace(ch) == ch \in {" ", "\t", "\r", "\n"}
        \* s.trim()
        trim(chars) ==
            IF \A i \in 1..Len(chars) : isSpace(chars[i]) THEN <<>>
            ELSE SubSeq(chars,
                        CHOOSE a \in 1..Len(chars) :
                            ~isSpace(chars[a]) /\ \A i \in 1..(a - 1) : isSpace(chars[i]),
                        CHOOSE b \in 1..Len(chars) :
                            ~isSpace(chars[b]) /\ \A i \in (b + 1)..Len(chars) : isSpace(chars[i]))
        text == trim(node.v)
        negated == asAtomName(J("string", trim(Tail(text))))
        t == jsonType(node)
        inner == jsonToCond(orElse(get(node, "inner"), get(node, "not")))
        left == jsonToCond(get(node, "left"))
        right == jsonToCond(get(node, "right"))
    IN  IF node.j = "string" THEN
            IF text = <<>> THEN Failed("JSON: condition ist leer")
            ELSE IF Head(text) = "!" THEN
                IF trim(Tail(text)) = <<>> THEN Failed("JSON: ungueltige condition")
                ELSE IF ~negated.ok THEN negated
                ELSE Parsed(Not(negated.v), 0)
            ELSE asAtomName(J("string", text))
        ELSE IF node.j # "object" THEN Failed("JSON: Condition muss Objekt sein")
        ELSE IF t = "atom" THEN asAtomName(orElse(get(node, "name"), get(node, "atom")))
        ELSE IF t = "not" THEN IF ~inner.ok THEN inner ELSE Parsed(Not(inner.v), 0)
        ELSE IF t \in {"and", "or"} THEN
            IF ~left.ok THEN left
            ELSE IF ~right.ok THEN right
            ELSE Parsed(IF t = "and" THEN And(left.v, right.v) ELSE Or(left.v, right.v), 0)
        ELSE IF get(node, "name").j \notin {"null", "undefined"}
        THEN asAtomName(get(node, "name"))
        ELSE Failed("JSON: Unbekannter Condition-Knoten")

\* Both return Parsed with the line counter lc.n after the call in place of
\* a position.
RECURSIVE jsonToStmtArray(_, _), jsonToStmt(_, _)
RECURSIVE elseIfChain(_, _, _), elseIfChainForward(_, _, _)

jsonToStmtArray(arr, n) ==
    LET RECURSIVE map(_, _, _)
        map(i, stmts, lc) ==
            LET push(st) ==
                    IF ~st.ok THEN st ELSE map(i + 1, Append(stmts, st.v), st.p)
            IN  IF i > Len(arr.v) THEN Parsed(stmts, lc)
                ELSE push(jsonToStmt(arr.v[i], lc))
    IN  IF arr.j # "array" THEN Failed("JSON: Erwartet Array von Statements")
        ELSE map(1, <<>>, n)

elseIfChainForward(elseIfs, i, els) ==
    LET eif == elseIfs.v[Len(elseIfs.v) - i + 1]
        eline == IF get(eif, "line").j = "number" THEN get(eif, "line").v ELSE els.p
        e1 == IF get(eif, "line").j = "number" THEN els.p ELSE els.p + 1
        ifNode(econd, ethen) ==
            IF els.has THEN IfElse(econd.v, ethen.v, els.v, eline)
            ELSE If(econd.v, ethen.v, eline)
        wrap(econd, ethen) ==
            IF ~econd.ok THEN econd
            ELSE IF ~ethen.ok THEN ethen
            ELSE elseIfChainForward(elseIfs, i - 1,
                                    [ok |-> TRUE, has |-> TRUE,
                                     v |-> <<ifNode(econd, ethen)>>, p |-> ethen.p])
    IN  IF i = 0 THEN els
        ELSE IF eif.j # "object" THEN Failed("JSON: elseIfs muss Objekt sein")
        ELSE wrap(jsonToCond(orElse(get(eif, "cond"), get(eif, "condition"))),
                  jsonToStmtArray(orElse(get(eif, "then"), J("array", <<>>)), e1))

\* jsonToStmt's loop for (i = elseIfs.length - 1; i >= 0; i--), entered with
\* i entries still to wrap: each wraps the else sequence els made so far
\* into the else of a new If
elseIfChain(elseIfs, i, els) ==
    LET eif == elseIfs.v[i]
        eline == IF get(eif, "line").j = "number" THEN get(eif, "line").v ELSE els.p
        e1 == IF get(eif, "line").j = "number" THEN els.p ELSE els.p + 1
        ifNode(econd, ethen) ==
            IF els.has THEN IfElse(econd.v, ethen.v, els.v, eline)
            ELSE If(econd.v, ethen.v, eline)
        wrap(econd, ethen) ==
            IF ~econd.ok THEN econd
            ELSE IF ~ethen.ok THEN ethen
            ELSE elseIfChain(elseIfs, i - 1,
                             [ok |-> TRUE, has |-> TRUE,
                              v |-> <<ifNode(econd, ethen)>>, p |-> ethen.p])
    IN  IF i = 0 THEN els
        ELSE IF eif.j # "object" THEN Failed("JSON: elseIfs muss Objekt sein")
        ELSE wrap(jsonToCond(orElse(get(eif, "cond"), get(eif, "condition"))),
                  jsonToStmtArray(orElse(get(eif, "then"), J("array", <<>>)), e1))

jsonToStmt(node, n) ==
    LET truthy(x) ==
            /\ x.j \notin {"null", "undefined"}
            /\ ~(x.j = "string" /\ x.v = <<>>)
            /\ ~(x.j = "number" /\ x.v = 0)
            /\ ~(x.j = "boolean" /\ x.v = FALSE)
        empty == J("array", <<>>)
        \* Number.isFinite(node.line) ? Number(node.line) : lc.n++
        line == IF get(node, "line").j = "number" THEN get(node, "line").v ELSE n
        n1 == IF get(node, "line").j = "number" THEN n ELSE n + 1
        t == jsonType(node)
        name == asCmdName(orElse(orElse(get(node, "name"), get(node, "cmd")),
                                 get(node, "command")))
        condOf(x) == jsonToCond(orElse(get(x, "cond"), get(x, "condition")))
        whileOf(cond, body) ==
            IF ~cond.ok THEN cond
            ELSE IF ~body.ok THEN body
            ELSE Parsed(While(cond.v, body.v, line), body.p)
        \* an else sequence (has: there is one) and the counter after it
        none(lc) == [ok |-> TRUE, has |-> FALSE, v |-> <<>>, p |-> lc]
        some(r) == IF r.ok THEN [ok |-> TRUE, has |-> TRUE, v |-> r.v, p |-> r.p] ELSE r
        single(r) == IF r.ok THEN [ok |-> TRUE, has |-> TRUE, v |-> <<r.v>>, p |-> r.p] ELSE r
        elsePart(lc) ==
            IF get(node, "else").j \in {"null", "undefined"} THEN none(lc)
            ELSE IF get(node, "else").j = "array"
            THEN some(jsonToStmtArray(get(node, "else"), lc))
            ELSE single(jsonToStmt(get(node, "else"), lc))
        elseIfs == get(node, "elseIfs")
        ifEnd(cond, thenPart, els) ==
            IF ~els.ok THEN els
            ELSE IF els.has THEN Parsed(IfElse(cond.v, thenPart.v, els.v, line), els.p)
            ELSE Parsed(If(cond.v, thenPart.v, line), els.p)
        withElse(cond, thenPart, otherwise) ==
            IF ~otherwise.ok THEN otherwise
            ELSE IF elseIfs.j = "array"
            THEN ifEnd(cond, thenPart, elseIfChain(elseIfs, Len(elseIfs.v), otherwise))
            ELSE ifEnd(cond, thenPart, otherwise)
        ifOf(cond, thenPart) ==
            IF ~cond.ok THEN cond
            ELSE IF ~thenPart.ok THEN thenPart
            ELSE withElse(cond, thenPart, elsePart(thenPart.p))
    IN  IF node.j # "object" THEN Failed("JSON: Statement muss Objekt sein")
        ELSE IF t \in {"cmd", "move"} \/ truthy(get(node, "cmd")) \/ truthy(get(node, "command"))
        THEN IF ~name.ok THEN name ELSE Parsed(Cmd(name.v, line), n1)
        ELSE IF t = "while"
        THEN whileOf(condOf(node),
                     jsonToStmtArray(orElse(orElse(get(node, "body"), get(node, "block")),
                                            empty), n1))
        ELSE IF t = "if"
        THEN ifOf(condOf(node), jsonToStmtArray(orElse(get(node, "then"), empty), n1))
        ELSE Failed("JSON: Unbekannter Statement-Typ")

\* { active, programs }, { steps } or an array of statements
parseJsonRoot(root) ==
    LET active == slice(get(root, "active").v, 0, Len(get(root, "active").v))
        programs == get(root, "programs")
        falsy(x) ==
            \/ x.j \in {"null", "undefined"}
            \/ x.j = "string" /\ x.v = <<>>
            \/ x.j = "number" /\ x.v = 0
            \/ x.j = "boolean" /\ x.v = FALSE
    IN  IF root.j = "object" /\ get(root, "active").j = "string" /\ programs.j = "object"
        THEN IF falsy(get(programs, active))
             THEN Failed("JSON: active nicht in programs gefunden")
             ELSE jsonToStmtArray(get(programs, active), 1)
        ELSE IF root.j = "object" /\ get(root, "steps").j = "array"
        THEN jsonToStmtArray(get(root, "steps"), 1)
        ELSE IF root.j = "array" THEN jsonToStmtArray(root, 1)
        ELSE Failed("JSON: Unbekanntes Root-Format")

\* parseScript of a file: of a document, text holds its first characters and
\* json the value JSON.parse returns for it
parseScript(file) ==
    LET isSpace(ch) == ch \in {" ", "\t", "\r", "\n"}
        first == IF \A i \in 1..Len(file.text) : isSpace(file.text[i]) THEN ""
                 ELSE file.text[CHOOSE a \in 1..Len(file.text) :
                          ~isSpace(file.text[a]) /\ \A i \in 1..(a - 1) : isSpace(file.text[i])]
        document(parsed) ==
            IF parsed.ok THEN parsed ELSE Failed("JSON Parse/Schema-Fehler: " \o parsed.err)
        script(toks) == IF ~toks.ok THEN toks ELSE parseStart(toks.v)
    IN  IF first \in {"{", "["} THEN document(parseJsonRoot(file.json))
        ELSE script(tokenize(file.text))

----------------------------------------------------------------------------
(* vm.ts *)

Act(act, line) == [t |-> "ACT", act |-> act, line |-> line]

Jmp(to, line) == [t |-> "JMP", to |-> to, line |-> line]

JmpIfFalse(c, to, line) == [t |-> "JMP_IF_FALSE", cond |-> c, to |-> to, line |-> line]

\* out.push(i)
emit(out, i) == Append(out, i)

patchUnresolved(out, index) == out

patchOneShort(out, index) == [out EXCEPT ![index + 1].to = Len(out) - 1]

\* out[index] = { ...out[index], to: out.length }
patch(out, index) == [out EXCEPT ![index + 1].to = Len(out)]

whileJumpPastCond(start, line) == Jmp(start + 1, line)

\* the While's closing emit({ t: "JMP", to: start, line: s.line })
whileJump(start, line) == Jmp(start, line)

\* if (s.else): an array, even an empty one, is truthy
hasElse(st) == "else" \in DOMAIN st

RECURSIVE compileStmts(_, _)
compileStmts(stmts, out) ==
    IF stmts = <<>> THEN out
    ELSE
    LET st == Head(stmts) IN
    IF st.t = "CMD" THEN
        compileStmts(Tail(stmts), emit(out, Act(st.name, st.line)))
    ELSE IF st.t = "IF" THEN
        LET jIfIndex == Len(out)
            o1 == emit(out, JmpIfFalse(st.cond, -1, st.line))
            o2 == compileStmts(st.then, o1)
            jEndIndex == Len(o2)
            o3 == emit(o2, Jmp(-1, st.line))
            o4 == patch(o3, jIfIndex)
            o5 == IF hasElse(st) THEN compileStmts(st.else, o4) ELSE o4
            o6 == patch(o5, jEndIndex)
        IN  compileStmts(Tail(stmts), o6)
    ELSE
        LET start == Len(out)
            jIfIndex == Len(out)
            o1 == emit(out, JmpIfFalse(st.cond, -1, st.line))
            o2 == compileStmts(st.body, o1)
            o3 == emit(o2, whileJump(start, st.line))
            o4 == patch(o3, jIfIndex)
        IN  compileStmts(Tail(stmts), o4)

compile(prog) == compileStmts(prog, <<>>)

makeVMRunning(instr) == [pc |-> 0, instr |-> instr, done |-> FALSE]

makeVM(instr) == [pc |-> 0, instr |-> instr, done |-> (Len(instr) = 0)]

currentLine(v) ==
    IF v.done THEN NoLine
    ELSE IF v.pc >= 0 /\ v.pc < Len(v.instr) THEN v.instr[v.pc + 1].line
    ELSE NoLine

execActRetry(act, st) ==
    LET once == IF act = "forward" THEN cmdMove(st)
                ELSE IF act = "turnLeft" THEN cmdTurnLeft(st)
                ELSE IF act = "turnRight" THEN cmdTurnRight(st)
                ELSE IF act = "pick" THEN cmdPick(st)
                ELSE cmdPut(st)
    IN  IF once.err = "none" THEN once
        ELSE IF act = "forward" THEN cmdMove(once.s)
        ELSE IF act = "pick" THEN cmdPick(once.s)
        ELSE cmdPut(once.s)

execAct(act, st) ==
    IF act = "forward" THEN cmdMove(st)
    ELSE IF act = "turnLeft" THEN cmdTurnLeft(st)
    ELSE IF act = "turnRight" THEN cmdTurnRight(st)
    ELSE IF act = "pick" THEN cmdPick(st)
    ELSE cmdPut(st)

\* what a stepVM call leaves behind: the VM, the state, the returned line
\* (NoLine for null, and when it threw) and the error it threw
StepResult(v, st, line, e) == [vm |-> v, s |-> st, line |-> line, err |-> e]

stepVMFinishWonOnly(v, st, line) ==
    LET v1 == IF st.won THEN [v EXCEPT !.done = TRUE] ELSE v
    IN  StepResult(v1, st, line, "none")

stepVMFinishNewLine(v, st, line) ==
    LET v1 == IF st.won THEN [v EXCEPT !.done = TRUE] ELSE v
        v2 == IF v1.pc >= Len(v1.instr) THEN [v1 EXCEPT !.done = TRUE] ELSE v1
    IN  StepResult(v2, st, currentLine(v2), "none")

stepVMFinishPcOnly(v, st, line) ==
    LET v2 == IF v.pc >= Len(v.instr) THEN [v EXCEPT !.done = TRUE] ELSE v
    IN  StepResult(v2, st, line, "none")

\* stepVM lines 121-124: the two checks after the switch, and the return
stepVMFinish(v, st, line) ==
    LET v1 == IF st.won THEN [v EXCEPT !.done = TRUE] ELSE v
        v2 == IF v1.pc >= Len(v1.instr) THEN [v1 EXCEPT !.done = TRUE] ELSE v1
    IN  StepResult(v2, st, line, "none")

branchInverted(v, ins, st) == IF evalCond(ins.cond, st) THEN ins.to ELSE v.pc + 1

\* case "JMP_IF_FALSE": the new pc
branch(v, ins, st) == IF ~evalCond(ins.cond, st) THEN ins.to ELSE v.pc + 1

stepVMCountsEveryStep(v, st) ==
    IF v.done THEN StepResult(v, st, NoLine, "none")
    ELSE IF st.won THEN StepResult([v EXCEPT !.done = TRUE], st, NoLine, "none")
    ELSE IF v.pc < 0 \/ v.pc >= Len(v.instr)
    THEN StepResult([v EXCEPT !.done = TRUE], st, NoLine, "none")
    ELSE
    LET ins == v.instr[v.pc + 1]
        line == ins.line
        counted == [st EXCEPT !.stepCount = @ + 1]
    IN  IF ins.t = "ACT" THEN
            LET r == execAct(ins.act, st) IN
            IF r.err # "none" THEN StepResult(v, r.s, NoLine, r.err)
            ELSE stepVMFinish([v EXCEPT !.pc = @ + 1], r.s, line)
        ELSE IF ins.t = "JMP" THEN
            stepVMFinish([v EXCEPT !.pc = ins.to], counted, line)
        ELSE
            stepVMFinish([v EXCEPT !.pc = branch(v, ins, st)], counted, line)

stepVM(v, st) ==
    IF v.done THEN StepResult(v, st, NoLine, "none")
    ELSE IF st.won THEN StepResult([v EXCEPT !.done = TRUE], st, NoLine, "none")
    ELSE IF v.pc < 0 \/ v.pc >= Len(v.instr)
    THEN StepResult([v EXCEPT !.done = TRUE], st, NoLine, "none")
    ELSE
    LET ins == v.instr[v.pc + 1]
        line == ins.line
    IN  IF ins.t = "ACT" THEN
            LET r == execAct(ins.act, st) IN
            IF r.err # "none" THEN StepResult(v, r.s, NoLine, r.err)
            ELSE stepVMFinish([v EXCEPT !.pc = @ + 1], r.s, line)
        ELSE IF ins.t = "JMP" THEN
            stepVMFinish([v EXCEPT !.pc = ins.to], st, line)
        ELSE
            stepVMFinish([v EXCEPT !.pc = branch(v, ins, st)], st, line)

----------------------------------------------------------------------------
(* levels.ts: wall construction *)

opposite(d) == IF d = "N" THEN "S" ELSE IF d = "S" THEN "N" ELSE IF d = "E" THEN "W" ELSE "E"

neighbor(x, y, d) ==
    IF d = "N" THEN [x |-> x, y |-> y - 1]
    ELSE IF d = "S" THEN [x |-> x, y |-> y + 1]
    ELSE IF d = "E" THEN [x |-> x + 1, y |-> y]
    ELSE [x |-> x - 1, y |-> y]

addBorderWalls(w, h, walls) ==
    walls \cup {keyWall(x, 0, "N") : x \in 0..(w - 1)}
          \cup {keyWall(x, h - 1, "S") : x \in 0..(w - 1)}
          \cup {keyWall(0, y, "W") : y \in 0..(h - 1)}
          \cup {keyWall(w - 1, y, "E") : y \in 0..(h - 1)}

addEdgeWall(w, h, walls, x, y, d) ==
    LET nb == neighbor(x, y, d) IN
    IF nb.x >= 0 /\ nb.y >= 0 /\ nb.x < w /\ nb.y < h
    THEN walls \cup {keyWall(x, y, d), keyWall(nb.x, nb.y, opposite(d))}
    ELSE walls \cup {keyWall(x, y, d)}

addBlockedCell(w, h, walls, x, y) ==
    addEdgeWall(w, h, addEdgeWall(w, h, addEdgeWall(w, h, addEdgeWall(w, h,
        walls, x, y, "N"), x, y, "S"), x, y, "E"), x, y, "W")

----------------------------------------------------------------------------
(* The Simulation States and programs the model starts from *)

BorderWalls == addBorderWalls(GridW, GridH, {})

\* no walls at all; border walls only; border walls and one edge recorded on
\* one side only; border walls and the cell next to the start cell enclosed
WallSets ==
    { {},
      BorderWalls,
      BorderWalls \cup {keyWall(0, GridH - 2, "S")},
      addBlockedCell(GridW, GridH, BorderWalls, 1, GridH - 1) }

BeeperMaps == { <<>>, (keyXY(0, GridH - 1) :> 1) }

SimStates(poses) ==
    { [world |-> [width |-> GridW, height |-> GridH, walls |-> ws, beepers |-> bs],
       robot |-> [x |-> p.x, y |-> p.y, dir |-> p.dir, bag |-> bag],
       stepCount |-> 0,
       maxSteps |-> MaxSteps,
       log |-> <<>>,
       won |-> w] :
      ws \in WallSets, bs \in BeeperMaps, p \in poses, bag \in {0, MaxBag}, w \in BOOLEAN }

AllPoses == [x : 0..(GridW - 1), y : 0..(GridH - 1), dir : Dirs]

\* the start cell of makeDefaultLevel (bottom left), facing east, and the
\* cell below the win row, facing north
StartPoses ==
    { [x |-> 0, y |-> GridH - 1, dir |-> "E"], [x |-> 0, y |-> 1, dir |-> "N"] }

InitialStates == SimStates(AllPoses)

StartStates == SimStates(StartPoses)

\* forward
ProgForward == << Cmd("forward", 1) >>

\* while (obstacleAhead || !obstacleAhead) { turnLeft }
ProgSpin ==
    << While(Or(Atom("obstacleAhead"), Not(Atom("obstacleAhead"))),
             << Cmd("turnLeft", 2) >>, 1) >>

\* if (obstacleAhead) { turnRight } else { forward }  forward
ProgIfElse ==
    << IfElse(Atom("obstacleAhead"), << Cmd("turnRight", 2) >>, << Cmd("forward", 4) >>, 1),
       Cmd("forward", 6) >>

\* while (!won) { if (obstacleAhead) { turnLeft } else { forward } }
ProgSolve ==
    << While(Not(Atom("won")),
             << IfElse(Atom("obstacleAhead"), << Cmd("turnLeft", 3) >>,
                       << Cmd("forward", 5) >>, 2) >>, 1) >>

\* while (notAtLine8) { if (won) { forward } }
ProgIdle ==
    << While(Atom("notAtLine8"), << If(Atom("won"), << Cmd("forward", 3) >>, 2) >>, 1) >>

\* if (beepersHere) { pick }  put  if (beeperInBag && !obstacleAhead) { put forward }
ProgBeepers ==
    << If(Atom("beepersHere"), << Cmd("pick", 2) >>, 1),
       Cmd("put", 4),
       If(And(Atom("beeperInBag"), Not(Atom("obstacleAhead"))),
          << Cmd("put", 6), Cmd("forward", 7) >>, 5) >>

\* while (beepersHere || obstacleLeft) { while (beepersHere) { pick } turnLeft }  forward
ProgNested ==
    << While(Or(Atom("beepersHere"), Atom("obstacleLeft")),
             << While(Atom("beepersHere"), << Cmd("pick", 3) >>, 2), Cmd("turnLeft", 5) >>, 1),
       Cmd("forward", 7) >>

\* if (obstacleAhead) { } else if (obstacleRight) { turnLeft } else { turnRight }  forward
ProgElseIf ==
    << IfElse(Atom("obstacleAhead"), <<>>,
              << IfElse(Atom("obstacleRight"), << Cmd("turnLeft", 3) >>,
                        << Cmd("turnRight", 5) >>, 2) >>, 1),
       Cmd("forward", 7) >>

\* the empty program
ProgEmpty == <<>>

Programs ==
    { ProgForward, ProgSpin, ProgIfElse, ProgSolve, ProgIdle, ProgBeepers, ProgNested,
      ProgElseIf, ProgEmpty }

StartPrograms == { ProgForward, ProgSolve, ProgBeepers }

\* The programs of exactly n statements, nested ones counted, over two
\* actions and one condition; a statement's line is the number of
\* statements it is made of.
RECURSIVE StmtsOfSize(_), SeqsOfSize(_)
StmtsOfSize(n) ==
    LET conds == { Not(Atom("obstacleAhead")) } IN
    (IF n = 1 THEN { Cmd(name, n) : name \in {"forward", "turnLeft"} } ELSE {})
    \cup { If(cond, th, n) : cond \in conds, th \in SeqsOfSize(n - 1) }
    \cup { While(cond, body, n) : cond \in conds, body \in SeqsOfSize(n - 1) }
    \cup UNION { { IfElse(cond, th, el, n) :
                     cond \in conds, th \in SeqsOfSize(k), el \in SeqsOfSize(n - 1 - k) } :
                 k \in 0..(n - 1) }

SeqsOfSize(n) ==
    IF n = 0 THEN { <<>> }
    ELSE UNION { { <<st>> \o rest : st \in StmtsOfSize(k), rest \in SeqsOfSize(n - k) } :
                 k \in 1..n }

\* one start state: border walls, an item under the robot and in its bag
CloneStates ==
    { st \in StartStates :
        /\ st.world.walls = BorderWalls
        /\ st.world.beepers # <<>>
        /\ st.robot.bag = MaxBag
        /\ st.robot.dir = "N"
        /\ ~st.won }

GenPrograms == UNION { SeqsOfSize(n) : n \in 0..MaxNodes }

\* makeDefaultLevel: the size of the grid and the start pose
LevelWidth == 8

LevelHeight == 8

LevelStart == [x |-> 0, y |-> 7, dir |-> "N", bag |-> 0]

\* the default level without blocked cells, with a step budget that covers
\* the climb to row 0 and up to MaxSteps actions more
ClimbStates ==
    { [world |-> [width |-> LevelWidth, height |-> LevelHeight,
                  walls |-> addBorderWalls(LevelWidth, LevelHeight, {}),
                  beepers |-> <<>>],
       robot |-> [LevelStart EXCEPT !.bag = bag],
       stepCount |-> 0,
       maxSteps |-> LevelHeight - 1 + extra,
       log |-> <<>>,
       won |-> FALSE] : bag \in {0, MaxBag}, extra \in 0..MaxSteps }

\* the wall keys of the edges between two cells of the grid, either side
InteriorWallKeys ==
    { keyWall(x, y, d) : x \in 0..(GridW - 1), y \in 0..(GridH - 1), d \in Dirs } \ BorderWalls

\* the subsets of S with at most n elements
RECURSIVE SubsetsUpTo(_, _)
SubsetsUpTo(S, n) ==
    IF n = 0 THEN {{}}
    ELSE LET smaller == SubsetsUpTo(S, n - 1)
         IN  smaller \cup { T \cup {e} : T \in smaller, e \in S }

\* border walls and up to MaxWalls walls inside, each recorded on one side
\* or on both; the robot on any cell
ReachStates ==
    { [world |-> [width |-> GridW, height |-> GridH,
                  walls |-> BorderWalls \cup inner, beepers |-> <<>>],
       robot |-> [x |-> x, y |-> y, dir |-> "N", bag |-> 0],
       stepCount |-> 0,
       maxSteps |-> MaxSteps,
       log |-> <<>>,
       won |-> FALSE] :
      inner \in SubsetsUpTo(InteriorWallKeys, MaxWalls),
      x \in 0..(GridW - 1), y \in 0..(GridH - 1) }

\* forward forward ... forward, one per line, one more than the grid has rows
ProgClimb == [i \in 1..(LevelHeight + 1) |-> Cmd("forward", i)]

\* the characters of the words the files below are written with
Spelling ==
    ("program" :> <<"p", "r", "o", "g", "r", "a", "m">>)
    @@ ("active" :> <<"a", "c", "t", "i", "v", "e">>)
    @@ ("main" :> <<"m", "a", "i", "n">>)
    @@ ("if" :> <<"i", "f">>)
    @@ ("else" :> <<"e", "l", "s", "e">>)
    @@ ("while" :> <<"w", "h", "i", "l", "e">>)
    @@ ("forward" :> <<"f", "o", "r", "w", "a", "r", "d">>)
    @@ ("turnLeft" :> <<"t", "u", "r", "n", "L", "e", "f", "t">>)
    @@ ("turnRight" :> <<"t", "u", "r", "n", "R", "i", "g", "h", "t">>)
    @@ ("pick" :> <<"p", "i", "c", "k">>)
    @@ ("put" :> <<"p", "u", "t">>)
    @@ ("Forward" :> <<"F", "o", "r", "w", "a", "r", "d">>)
    @@ ("FORWARD" :> <<"F", "O", "R", "W", "A", "R", "D">>)
    @@ ("turnleft" :> <<"t", "u", "r", "n", "l", "e", "f", "t">>)
    @@ ("move" :> <<"m", "o", "v", "e">>)
    @@ ("putt" :> <<"p", "u", "t", "t">>)
    @@ ("pic" :> <<"p", "i", "c">>)
    @@ ("obstacleAhead" :> <<"o", "b", "s", "t", "a", "c", "l", "e", "A", "h", "e", "a", "d">>)
    @@ ("obstacleLeft" :> <<"o", "b", "s", "t", "a", "c", "l", "e", "L", "e", "f", "t">>)
    @@ ("obstacleRight" :> <<"o", "b", "s", "t", "a", "c", "l", "e", "R", "i", "g", "h", "t">>)
    @@ ("won" :> <<"w", "o", "n">>)
    @@ ("goalReachable" :> <<"g", "o", "a", "l", "R", "e", "a", "c", "h", "a", "b", "l", "e">>)
    @@ ("notAtLine8" :> <<"n", "o", "t", "A", "t", "L", "i", "n", "e", "8">>)
    @@ ("beepersHere" :> <<"b", "e", "e", "p", "e", "r", "s", "H", "e", "r", "e">>)
    @@ ("beeperInBag" :> <<"b", "e", "e", "p", "e", "r", "I", "n", "B", "a", "g">>)
    @@ ("cmd" :> <<"c", "m", "d">>)
    @@ ("MOVE" :> <<"M", "O", "V", "E">>)
    @@ ("atom" :> <<"a", "t", "o", "m">>)
    @@ ("not" :> <<"n", "o", "t">>)
    @@ ("and" :> <<"a", "n", "d">>)
    @@ ("or" :> <<"o", "r">>)
    @@ ("While" :> <<"W", "h", "i", "l", "e">>)
    @@ ("steps" :> <<"s", "t", "e", "p", "s">>)

\* the programs written into files: the programs above, one with an empty
\* loop body, two with a cascade of two else-ifs, and each of the programs
\* above with one of its action names
\* replaced by a name that is none of the five: other case, a longer and a
\* shorter word, another word
ParsePrograms ==
    LET BadNames == {"Forward", "FORWARD", "turnleft", "move", "putt", "pic"}
        RECURSIVE withName(_, _, _)
        withName(stmts, from, to) ==
            [i \in 1..Len(stmts) |->
                LET st == stmts[i] IN
                IF st.t = "CMD" THEN (IF st.name = from THEN [st EXCEPT !.name = to] ELSE st)
                ELSE IF st.t = "WHILE" THEN [st EXCEPT !.body = withName(@, from, to)]
                ELSE IF hasElse(st)
                THEN [st EXCEPT !.then = withName(@, from, to),
                                !.else = withName(@, from, to)]
                ELSE [st EXCEPT !.then = withName(@, from, to)]]
        \* while (obstacleAhead) { }  forward
        emptyLoop == << While(Atom("obstacleAhead"), <<>>, 1), Cmd("forward", 2) >>
        \* if (obstacleAhead) { turnLeft } else if (obstacleLeft) { turnRight }
        \* else if (obstacleRight) { forward }, alone and with  else { put }
        cascade(last) ==
            << IfElse(Atom("obstacleAhead"), << Cmd("turnLeft", 1) >>,
                      << IfElse(Atom("obstacleLeft"), << Cmd("turnRight", 2) >>,
                                << last >>, 2) >>, 1) >>
        lastIf == If(Atom("obstacleRight"), << Cmd("forward", 3) >>, 3)
        lastIfElse == IfElse(Atom("obstacleRight"), << Cmd("forward", 3) >>,
                             << Cmd("put", 4) >>, 3)
    IN  Programs \cup {emptyLoop, cascade(lastIf), cascade(lastIfElse)} \cup
        { withName(prog, from, to) :
            prog \in Programs, from \in {"forward", "turnLeft", "turnRight", "pick", "put"},
            to \in BadNames }

\* The text of a file that declares stmts as the program main and makes it
\* active: form "brace" is  program main { s1 s2 ... sn };  active=main  and
\* form "legacy" is  program main = s1; s2; ... sn;  active=main.  (with no
\* statement, the ';' that ends the program alone); sep stands before
\* each top-level statement.
fileText(form, sep, stmts) ==
    LET word(w) == Spelling[w]
        RECURSIVE condText(_), operand(_), stmtText(_), seqText(_, _, _)
        condText(c) ==
            IF c.t = "AND" THEN operand(c.left) \o <<" ", "&", "&", " ">> \o operand(c.right)
            ELSE IF c.t = "OR" THEN operand(c.left) \o <<" ", "|", "|", " ">> \o operand(c.right)
            ELSE operand(c)
        operand(c) ==
            IF c.t = "ATOM" THEN word(c.name)
            ELSE IF c.t = "NOT" THEN <<"!">> \o operand(c.inner)
            ELSE <<"(">> \o condText(c) \o <<")">>
        block(stmts2) == <<" ", "{">> \o seqText(stmts2, <<" ">>, <<>>) \o <<" ", "}">>
        stmtText(st) ==
            IF st.t = "CMD" THEN word(st.name)
            ELSE IF st.t = "WHILE"
            THEN word("while") \o <<" ", "(">> \o condText(st.cond) \o <<")">> \o block(st.body)
            ELSE word("if") \o <<" ", "(">> \o condText(st.cond) \o <<")">> \o block(st.then)
                 \o (IF ~hasElse(st) THEN <<>>
                     ELSE IF Len(st.else) = 1 /\ st.else[1].t = "IF"
                     THEN <<" ">> \o word("else") \o <<" ">> \o stmtText(st.else[1])
                     ELSE <<" ">> \o word("else") \o block(st.else))
        seqText(stmts2, before, after) ==
            IF stmts2 = <<>> THEN <<>>
            ELSE before \o stmtText(Head(stmts2)) \o after \o seqText(Tail(stmts2), before, after)
    IN  IF form = "brace"
        THEN word("program") \o <<" ">> \o word("main") \o <<" ", "{">>
             \o seqText(stmts, sep, <<>>) \o sep \o <<"}", ";", "\n">>
             \o word("active") \o <<"=">> \o word("main")
        ELSE word("program") \o <<" ">> \o word("main") \o <<" ", "=">>
             \o (IF stmts = <<>> THEN <<" ", ";">> ELSE seqText(stmts, sep, <<";">>))
             \o <<"\n">> \o word("active") \o <<"=">> \o word("main") \o <<".">>

\* The document of stmts in one of the three root formats: "programs" is
\* { active, programs } with commands as { type: "cmd", name }, "steps" is
\* { steps } with commands as { cmd } and else-if cascades as elseIfs lists,
\* "array" is the bare array with commands as { t: "MOVE", command }.  A
\* condition that is an atom or a negated atom is written as a string.
fileJson(format, stmts) ==
    LET str(w) == J("string", Spelling[w])
        obj(f) == J("object", f)
        RECURSIVE condJson(_), stmtJson(_), seqJson(_), cascade(_)
        condJson(c) ==
            IF c.t = "ATOM" THEN obj(("type" :> str("atom")) @@ ("name" :> str(c.name)))
            ELSE IF c.t = "NOT" THEN obj(("type" :> str("not")) @@ ("inner" :> condJson(c.inner)))
            ELSE obj(("type" :> str(IF c.t = "AND" THEN "and" ELSE "or"))
                     @@ ("left" :> condJson(c.left)) @@ ("right" :> condJson(c.right)))
        cond(c) ==
            IF c.t = "ATOM" THEN str(c.name)
            ELSE IF c.t = "NOT" /\ c.inner.t = "ATOM"
            THEN J("string", <<"!", " ">> \o Spelling[c.inner.name])
            ELSE condJson(c)
        seqJson(stmts2) == J("array", [i \in 1..Len(stmts2) |-> stmtJson(stmts2[i])])
        isElseIf(st) == hasElse(st) /\ Len(st.else) = 1 /\ st.else[1].t = "IF"
        \* the else-if entries of an If and its final else sequence
        cascade(st) ==
            LET entry == obj(("condition" :> cond(st.else[1].cond))
                             @@ ("then" :> seqJson(st.else[1].then)))
                rest == cascade(st.else[1])
            IN  IF isElseIf(st)
                THEN [elseIfs |-> <<entry>> \o rest.elseIfs, else |-> rest.else]
                ELSE [elseIfs |-> <<>>,
                      else |-> IF hasElse(st) THEN ("else" :> seqJson(st.else)) ELSE <<>>]
        stmtJson(st) ==
            IF st.t = "CMD" THEN
                IF format = "programs"
                THEN obj(("type" :> str("cmd")) @@ ("name" :> str(st.name)))
                ELSE IF format = "steps" THEN obj(("cmd" :> str(st.name)))
                ELSE obj(("t" :> str("MOVE")) @@ ("command" :> str(st.name)))
            ELSE IF st.t = "WHILE" THEN
                IF format = "steps"
                THEN obj(("type" :> str("While")) @@ ("condition" :> cond(st.cond))
                         @@ ("block" :> seqJson(st.body)))
                ELSE obj(("type" :> str("while")) @@ ("cond" :> cond(st.cond))
                         @@ ("body" :> seqJson(st.body)))
            ELSE IF format = "steps" /\ isElseIf(st)
            THEN obj(("type" :> str("if")) @@ ("cond" :> cond(st.cond))
                     @@ ("then" :> seqJson(st.then))
                     @@ ("elseIfs" :> J("array", cascade(st).elseIfs))
                     @@ cascade(st).else)
            ELSE obj(("type" :> str("if")) @@ ("cond" :> cond(st.cond))
                     @@ ("then" :> seqJson(st.then))
                     @@ (IF hasElse(st) THEN ("else" :> seqJson(st.else)) ELSE <<>>))
    IN  IF format = "programs"
        THEN obj(("active" :> str("main")) @@ ("programs" :> obj("main" :> seqJson(stmts))))
        ELSE IF format = "steps"
        THEN obj(("programName" :> str("main")) @@ ("steps" :> seqJson(stmts)))
        ELSE seqJson(stmts)

\* the files of a program: its text in both forms, all on one line and one
\* statement to a line, and its document in the three root formats
FilesOf(stmts) ==
    { [text |-> fileText(form, sep, stmts), json |-> J("undefined", <<>>)] :
        form \in {"brace", "legacy"}, sep \in {<<" ">>, <<"\n">>} }
    \cup { [text |-> <<"{">>, json |-> fileJson(format, stmts)] : format \in {"programs", "steps"} }
    \cup { [text |-> <<"\n", "[">>, json |-> fileJson("array", stmts)] }

----------------------------------------------------------------------------
(* The reference semantics: a tree-walking interpreter of the statement   *)
(* sequence.  tw.k is the sequence of statements still to run, tw.s its    *)
(* own Simulation State, tw.err the error that stopped it.                 *)

Ev(kind, name, line, val) == [kind |-> kind, name |-> name, line |-> line, val |-> val]

NoEvent == Ev("none", "", NoLine, "")

BoolStr(b) == IF b THEN "true" ELSE "false"

twFinished(t) == t.err # "none" \/ t.s.won \/ t.k = <<>>

\* one visit: run the action, or evaluate the condition and enter the branch
twStep(t) ==
    IF twFinished(t) THEN [tw |-> t, ev |-> NoEvent]
    ELSE
    LET st == Head(t.k) IN
    IF st.t = "CMD" THEN
        LET r == execAct(st.name, t.s) IN
        [tw |-> [k |-> IF r.err = "none" THEN Tail(t.k) ELSE t.k, s |-> r.s, err |-> r.err],
         ev |-> Ev("act", st.name, st.line, r.err)]
    ELSE IF st.t = "IF" THEN
        LET b == evalCond(st.cond, t.s)
            branchStmts == IF b THEN st.then ELSE IF hasElse(st) THEN st.else ELSE <<>>
        IN  [tw |-> [t EXCEPT !.k = branchStmts \o Tail(t.k)],
             ev |-> Ev("cond", "", st.line, BoolStr(b))]
    ELSE
        LET b == evalCond(st.cond, t.s) IN
        [tw |-> [t EXCEPT !.k = IF b THEN st.body \o t.k ELSE Tail(t.k)],
         ev |-> Ev("cond", "", st.line, BoolStr(b))]

\* whether stepVM(v, st) reaches its switch
dispatches(v, st) == ~v.done /\ ~st.won /\ v.pc >= 0 /\ v.pc < Len(v.instr)

\* what the call stepVM(v, st) with outcome r was seen to do
vmEvent(v, st, r) ==
    IF ~dispatches(v, st) THEN NoEvent
    ELSE LET ins == v.instr[v.pc + 1] IN
         IF ins.t = "ACT" THEN Ev("act", ins.act, ins.line, r.err)
         ELSE IF ins.t = "JMP_IF_FALSE"
         THEN Ev("cond", "", ins.line, BoolStr(r.vm.pc = v.pc + 1))
         ELSE NoEvent

\* the traces keep the last MaxTrace entries: one shorter than MaxTrace is
\* the whole history
Window(trace, e) == IF Len(trace) >= MaxTrace THEN Append(Tail(trace), e) ELSE Append(trace, e)

Record(trace, ev) == IF ev = NoEvent THEN trace ELSE Window(trace, ev)

\* the line a stepVM call returned, with the kind of instruction it executed
RecordLine(lines, v, r) ==
    IF r.line = NoLine THEN lines
    ELSE Window(lines, [line |-> r.line, t |-> v.instr[v.pc + 1].t])

----------------------------------------------------------------------------
(* The state machine *)

InitRunVars(states, programs) ==
    /\ s \in states
    /\ program \in programs
    /\ vm = makeVM(compile(program))
    /\ op = "init"
    /\ err = "none"
    /\ ret = NoLine
    /\ s0 = s
    /\ tw = [k |-> program, s |-> s, err |-> "none"]
    /\ vmTrace = <<>>
    /\ twTrace = <<>>
    /\ vmLines = <<>>

InitWith(states, programs) ==
    /\ InitRunVars(states, programs)
    /\ src = <<>>
    /\ result = <<>>
    /\ heap = <<>>
    /\ refs = <<>>
    /\ parseError = "none"
    /\ running = FALSE
    /\ activeLine = NoLine

\* engine actions and VM steps called in any order, from the start poses
Init == InitWith(StartStates, StartPrograms)

\* complete runs of the VM, from every pose
InitRun == InitWith(InitialStates, Programs)

refVars == <<tw, vmTrace, twTrace, vmLines>>

\* the variables of the parser, the pure calls and the clone
auxVars == <<src, result, heap, refs, parseError, running, activeLine>>

\* the variables of the game shell alone
shellVars == <<parseError, running, activeLine>>

\* a direct call of an engine action on the state
Call(name, r) ==
    /\ s' = r.s
    /\ err' = r.err
    /\ op' = name
    /\ ret' = NoLine
    /\ UNCHANGED <<vm, s0, program, refVars, auxVars>>

CallCmdMove == Call("cmdMove", cmdMove(s))

CallCmdTurnLeft == Call("cmdTurnLeft", cmdTurnLeft(s))

CallCmdTurnRight == Call("cmdTurnRight", cmdTurnRight(s))

CallCmdPick == Call("cmdPick", cmdPick(s))

CallCmdPut == Call("cmdPut", cmdPut(s))

\* a call of stepVM(vm, s)
CallStepVM ==
    LET r == stepVM(vm, s) IN
    /\ s' = r.s
    /\ vm' = r.vm
    /\ err' = r.err
    /\ ret' = r.line
    /\ op' = "stepVM"
    /\ UNCHANGED <<s0, program, refVars, auxVars>>

Next ==
    \/ CallCmdMove
    \/ CallCmdTurnLeft
    \/ CallCmdTurnRight
    \/ CallCmdPick
    \/ CallCmdPut
    \/ CallStepVM

Spec == Init /\ [][Next]_vars

\* A caller that steps the VM until it is Done or a step throws, with the
\* tree walker making a visit whenever the VM executes an action or
\* evaluates a condition.
RunStep ==
    /\ ~vm.done
    /\ err = "none"
    /\ LET r == stepVM(vm, s)
           ev == vmEvent(vm, s, r)
           t == IF ev = NoEvent THEN [tw |-> tw, ev |-> NoEvent] ELSE twStep(tw)
       IN  /\ s' = r.s
           /\ vm' = r.vm
           /\ err' = r.err
           /\ ret' = r.line
           /\ op' = "stepVM"
           /\ tw' = t.tw
           /\ vmTrace' = Record(vmTrace, ev)
           /\ twTrace' = Record(twTrace, t.ev)
           /\ vmLines' = RecordLine(vmLines, vm, r)
           /\ UNCHANGED <<s0, program, auxVars>>

SpecRun == InitRun /\ [][RunStep]_vars /\ WF_vars(RunStep)

\* The default level without blocked cells: the program of forward actions
\* is stepped until it is Done, and further actions are issued after it.
InitClimb == InitWith(ClimbStates, {ProgClimb})

AfterRun ==
    /\ vm.done
    /\ (CallCmdMove \/ CallCmdTurnLeft \/ CallCmdTurnRight \/ CallCmdPick \/ CallCmdPut)

NextClimb == RunStep \/ AfterRun

SpecClimb == InitClimb /\ [][NextClimb]_vars

\* a VM made from any of the programs, the empty one included, and stepped
\* whatever its mode and the state's, with moves made between the steps
InitVM == InitWith(StartStates, Programs)

\* a call of currentLine(vm)
CallCurrentLine ==
    /\ result' = currentLine(vm)
    /\ op' = "currentLine"
    /\ UNCHANGED <<s, vm, err, ret, s0, program, refVars, src, heap, refs, shellVars>>

NextVM == CallStepVM \/ CallCmdMove \/ CallCurrentLine

SpecVM == InitVM /\ [][NextVM]_vars

\* while (!goalReachable) { turnLeft }  if (goalReachable && !obstacleAhead) { forward }
ProgReach ==
    << While(Not(Atom("goalReachable")), << Cmd("turnLeft", 2) >>, 1),
       If(And(Atom("goalReachable"), Not(Atom("obstacleAhead"))), << Cmd("forward", 5) >>, 4) >>

\* the start states, and each of them with the robot's own cell enclosed
\* by four walls, from where no cell of row 0 can be reached
BranchStates ==
    StartStates \cup
    { [st EXCEPT !.world.walls = addBlockedCell(GridW, GridH, @, st.robot.x, st.robot.y)] :
        st \in StartStates }

\* a VM made from a program whose conditions ask goalReachable, stepped
\* whatever its mode and the state's, with moves made between the steps
InitBranch == InitWith(BranchStates, {ProgReach, ProgSolve})

SpecBranch == InitBranch /\ [][NextVM]_vars

\* compile called on a program
InitCompile ==
    /\ program \in GenPrograms
    /\ s \in CloneStates
    /\ s0 = s
    /\ vm = makeVM(<<>>)
    /\ op = "init"
    /\ err = "none"
    /\ ret = NoLine
    /\ tw = [k |-> program, s |-> s, err |-> "none"]
    /\ vmTrace = <<>>
    /\ twTrace = <<>>
    /\ vmLines = <<>>
    /\ src = <<>>
    /\ result = <<>>
    /\ heap = <<>>
    /\ refs = <<>>
    /\ parseError = "none"
    /\ running = FALSE
    /\ activeLine = NoLine

\* vm = makeVM(compile(program))
CallCompile ==
    /\ op = "init"
    /\ vm' = makeVM(compile(program))
    /\ op' = "compile"
    /\ UNCHANGED <<s, err, ret, s0, program, refVars, auxVars>>

SpecCompile == InitCompile /\ [][CallCompile]_vars

\* goalReachable called on a state
InitReach == InitWith(ReachStates, {ProgEmpty})

CallGoalReachable ==
    /\ result' = goalReachableRun(s)
    /\ op' = "goalReachable"
    /\ UNCHANGED <<s, vm, err, ret, s0, program, refVars, src, heap, refs, shellVars>>

SpecReach == InitReach /\ [][CallGoalReachable]_vars

\* A State and its clone: engine actions and VM steps on either.  s is the
\* original as read through its reference.
InitClone ==
    /\ InitRunVars(CloneStates, {ProgForward})
    /\ src = <<>>
    /\ result = <<>>
    /\ heap = newState(s)
    /\ refs = <<Len(heap)>>
    /\ parseError = "none"
    /\ running = FALSE
    /\ activeLine = NoLine

\* c = cloneState(s)
CallCloneState ==
    /\ Len(refs) = 1
    /\ LET r == cloneState(heap, refs[1]) IN
       /\ heap' = r.heap
       /\ refs' = Append(refs, r.ref)
    /\ op' = "cloneState"
    /\ err' = "none"
    /\ UNCHANGED <<s, vm, ret, s0, program, refVars, src, result, shellVars>>

\* an engine action on the State at refs[i]
ActOn(i, name) ==
    /\ Len(refs) = 2
    /\ LET r == execAct(name, read(heap, refs[i])) IN
       /\ heap' = write(heap, refs[i], r.s)
       /\ err' = r.err
    /\ s' = read(heap', refs[1])
    /\ op' = IF i = 1 THEN "onOriginal" ELSE "onClone"
    /\ UNCHANGED <<vm, ret, s0, program, refVars, src, result, refs, shellVars>>

\* stepVM(vm, the State at refs[i])
StepOn(i) ==
    /\ Len(refs) = 2
    /\ LET r == stepVM(vm, read(heap, refs[i])) IN
       /\ heap' = write(heap, refs[i], r.s)
       /\ vm' = r.vm
       /\ err' = r.err
       /\ ret' = r.line
    /\ s' = read(heap', refs[1])
    /\ op' = IF i = 1 THEN "onOriginal" ELSE "onClone"
    /\ UNCHANGED <<s0, program, refVars, src, result, refs, shellVars>>

EngineActs == {"forward", "turnLeft", "turnRight", "pick", "put"}

NextClone ==
    \/ CallCloneState
    \/ \E i \in 1..2 : StepOn(i)
    \/ \E i \in 1..2, name \in EngineActs : ActOn(i, name)

SpecClone == InitClone /\ [][NextClone]_vars

\* a file of a program is loaded, parsed, and run from the start state
InitParse ==
    /\ program \in ParsePrograms
    /\ src \in FilesOf(program)
    /\ s \in CloneStates
    /\ s0 = s
    /\ vm = makeVM(<<>>)
    /\ op = "init"
    /\ err = "none"
    /\ ret = NoLine
    /\ tw = [k |-> <<>>, s |-> s, err |-> "none"]
    /\ vmTrace = <<>>
    /\ twTrace = <<>>
    /\ vmLines = <<>>
    /\ result = <<>>
    /\ heap = <<>>
    /\ refs = <<>>
    /\ parseError = "none"
    /\ running = FALSE
    /\ activeLine = NoLine

\* applyFileText: parseScript(text), its message kept as the parse error
CallParseScript ==
    /\ op = "init"
    /\ result' = parseScript(src)
    /\ err' = result'.err
    /\ op' = "parseScript"
    /\ UNCHANGED <<s, vm, ret, s0, program, refVars, src, heap, refs, shellVars>>

\* startRun with no parse error: buildVmFromSource parses the text again,
\* makes the VM of the compiled program and resets the state
CallBuildVm ==
    /\ op = "parseScript"
    /\ err = "none"
    /\ result' = parseScript(src)
    /\ vm' = makeVM(compile(result'.v))
    /\ s' = s0
    /\ op' = "buildVm"
    /\ UNCHANGED <<err, ret, s0, program, refVars, src, heap, refs, shellVars>>

\* the steps of the run, until the VM is Done or a step throws
StepBuiltVm ==
    /\ op \in {"buildVm", "stepVM"}
    /\ ~vm.done
    /\ err = "none"
    /\ CallStepVM

NextParse == CallParseScript \/ CallBuildVm \/ StepBuiltVm

SpecParse == InitParse /\ [][NextParse]_vars

----------------------------------------------------------------------------
(* Compiled execution against the tree-walking interpreter (SpecRun) *)

LinesOf(entries) == [i \in 1..Len(entries) |-> entries[i].line]

\* the lines of the statements the tree walker has visited: the actions it
\* executed and the conditions it evaluated
TwLines == LinesOf(SelectSeq(twTrace, LAMBDA e : e.val \in {"none", "true", "false"}))

\* the lines stepVM returned from Act and BranchIfFalse instructions
VmStmtLines == LinesOf(SelectSeq(vmLines, LAMBDA e : e.t # "JMP"))

\* the direction after n left turns from d
LeftTurns(d, n) ==
    LET order == <<"N", "W", "S", "E">>
        i == CHOOSE j \in 1..4 : order[j] = d
    IN  order[((i - 1 + n) % 4) + 1]

HasKind(trace, kind) == \E i \in 1..Len(trace) : trace[i].kind = kind

\* C1: stepping the compiled program applies the same actions, evaluates the
\* same conditions with the same results, and leaves the same Simulation
\* State or the same error as the tree-walking interpreter; when the VM is
\* Done the interpreter has nothing left to run.
C1_SameRunAsTreeWalk ==
    /\ vmTrace = twTrace
    /\ s = tw.s
    /\ err = tw.err
    /\ (vm.done /\ err = "none") => twFinished(tw)

\* a finished run that executed actions and evaluated conditions
C1_Witness ==
    /\ vm.done
    /\ err = "none"
    /\ twFinished(tw)
    /\ HasKind(vmTrace, "act")
    /\ HasKind(vmTrace, "cond")
    /\ Len(vmTrace) >= 3
    /\ s # s0

\* C2 as stated: at the end of a run the lines returned by the stepVM calls
\* are exactly the lines the tree walker visited, no extra, none missing.
C2_LinesEqualTreeWalk ==
    (vm.done /\ err = "none" /\ Len(vmLines) < MaxTrace) => LinesOf(vmLines) = TwLines

\* C2 amended: the lines returned by the stepVM calls that execute an Act or a
\* BranchIfFalse are exactly the lines the tree walker visits, in order; each
\* stepVM call that executes a Jump returns one more entry, the line of the
\* If or While whose condition was evaluated before it.
C2_StmtLinesEqualTreeWalk ==
    Len(vmLines) < MaxTrace =>
        /\ VmStmtLines = TwLines
        /\ \A i \in 1..Len(vmLines) :
              vmLines[i].t = "JMP" =>
                  \E j \in 1..(i - 1) :
                      vmLines[j].t = "JMP_IF_FALSE" /\ vmLines[j].line = vmLines[i].line

\* a finished run in which a Jump returned a line the tree walker has not
C2_Witness ==
    /\ vm.done
    /\ err = "none"
    /\ Len(vmLines) < MaxTrace
    /\ \E i \in 1..Len(vmLines) : vmLines[i].t = "JMP"
    /\ \E i \in 1..Len(vmLines) : vmLines[i].t = "ACT"
    /\ Len(vmLines) > Len(TwLines)

\* C6: the program "while (always true) { turnLeft }", stepped from stepCount 0
\* in a state not yet won, never becomes Done and ends with STEP_LIMIT after
\* exactly maxSteps successful turnLeft actions: the robot has turned left
\* maxSteps times on its cell and nothing else has changed.
C6_SpinEndsAtStepLimit ==
    /\ (program = ProgSpin /\ ~s0.won) ~> (err = "STEP_LIMIT")
    /\ [](program = ProgSpin /\ ~s0.won =>
             /\ ~vm.done
             /\ s.stepCount <= s0.maxSteps
             /\ s = [s0 EXCEPT !.stepCount = s.stepCount,
                               !.robot.dir = LeftTurns(@, s.stepCount)]
             /\ err # "none" => (err = "STEP_LIMIT" /\ s.stepCount = s0.maxSteps))

\* the spinning run stopped by the step limit
C6_Witness ==
    /\ program = ProgSpin
    /\ ~s0.won
    /\ err = "STEP_LIMIT"
    /\ s.stepCount = MaxSteps
    /\ s.robot.dir = LeftTurns(s0.robot.dir, MaxSteps)

\* C7 as stated: every run of stepVM calls reaches Done or raises an error
\* after finitely many steps.
C7_RunEnds == <>(vm.done \/ err # "none")

----------------------------------------------------------------------------
(* Engine actions and VM steps in any order (Spec) *)

EngineOps == {"cmdMove", "cmdTurnLeft", "cmdTurnRight", "cmdPick", "cmdPut"}

\* the step calls stepVM and stepVM executes an Act instruction
StepsAct == op' = "stepVM" /\ dispatches(vm, s) /\ vm.instr[vm.pc + 1].t = "ACT"

\* the step attempts an engine action, called directly or by stepVM
AttemptsAction == op' \in EngineOps \/ StepsAct

\* the name of the action the step attempts
AttemptedAct ==
    IF op' = "cmdMove" THEN "forward"
    ELSE IF op' = "cmdTurnLeft" THEN "turnLeft"
    ELSE IF op' = "cmdTurnRight" THEN "turnRight"
    ELSE IF op' = "cmdPick" THEN "pick"
    ELSE IF op' = "cmdPut" THEN "put"
    ELSE vm.instr[vm.pc + 1].act

UnitX(d) == IF d = "E" THEN 1 ELSE IF d = "W" THEN -1 ELSE 0

UnitY(d) == IF d = "S" THEN 1 ELSE IF d = "N" THEN -1 ELSE 0

Reverse(d) == CASE d = "N" -> "S" [] d = "S" -> "N" [] d = "E" -> "W" [] d = "W" -> "E"

AheadX(st) == st.robot.x + UnitX(st.robot.dir)

AheadY(st) == st.robot.y + UnitY(st.robot.dir)

AheadOutside(st) ==
    \/ AheadX(st) < 0 \/ AheadX(st) >= st.world.width
    \/ AheadY(st) < 0 \/ AheadY(st) >= st.world.height

WallOnCurrentCell(st) == <<st.robot.x, st.robot.y, st.robot.dir>> \in st.world.walls

WallOnAheadCell(st) == <<AheadX(st), AheadY(st), Reverse(st.robot.dir)>> \in st.world.walls

MoveIsBlocked(st) == AheadOutside(st) \/ WallOnCurrentCell(st) \/ WallOnAheadCell(st)

CountHere(st) ==
    IF <<st.robot.x, st.robot.y>> \in DOMAIN st.world.beepers
    THEN st.world.beepers[<<st.robot.x, st.robot.y>>] ELSE 0

WinMarkers(log) == Cardinality({i \in 1..Len(log) : log[i] = "WIN"})

\* C3: stepCount never exceeds maxSteps, whatever actions and VM steps were
\* called and whether they succeeded or failed.
C3_StepCountWithinLimit == s.stepCount <= s.maxSteps

\* a VM step whose action was refused at the limit
C3_Witness ==
    /\ op = "stepVM"
    /\ err = "STEP_LIMIT"
    /\ s.stepCount = s.maxSteps
    /\ s.stepCount > s0.stepCount

\* C4: once won is true, no action and no VM step makes it false again.
C4_WonNeverReverts == [][s.won => s'.won]_vars

\* a turn, pick or put that succeeded after the move that won
C4_Witness ==
    /\ ~s0.won
    /\ s.won
    /\ op \in {"cmdTurnLeft", "cmdTurnRight", "cmdPick", "cmdPut"}
    /\ err = "none"

\* C5: an action attempt passes the step guard iff stepCount < maxSteps before
\* it; each attempt that passes adds exactly 1 to stepCount and nothing else
\* changes stepCount, so stepCount counts the attempts that passed; an attempt
\* at stepCount = maxSteps throws STEP_LIMIT and leaves robot, walls,
\* beepers, log and won unchanged.
C5_StepGuard ==
    [][ /\ AttemptsAction =>
            /\ (err' # "STEP_LIMIT") <=> (s.stepCount < s.maxSteps)
            /\ (err' # "STEP_LIMIT") => s'.stepCount = s.stepCount + 1
            /\ (s.stepCount = s.maxSteps) =>
                   /\ err' = "STEP_LIMIT"
                   /\ s'.robot = s.robot
                   /\ s'.world = s.world
                   /\ s'.log = s.log
                   /\ s'.won = s.won
        /\ ~AttemptsAction => (s'.stepCount = s.stepCount /\ err' = "none")
      ]_vars

\* a direct action call refused after maxSteps attempts passed
C5_Witness ==
    /\ op \in EngineOps
    /\ err = "STEP_LIMIT"
    /\ s0.stepCount = 0
    /\ s.stepCount = MaxSteps

\* C8: with budget left, cmdMove throws MOVE_BLOCKED iff the cell ahead is
\* outside the grid, or a wall is recorded on the current cell in the facing
\* direction, or on the cell ahead in the opposite direction; otherwise the
\* robot moves by the unit vector of its direction and its direction and
\* bag, the walls and the beepers are unchanged.
C8_MoveBlockedIff ==
    [][ (op' = "cmdMove" /\ s.stepCount < s.maxSteps) =>
            /\ (err' = "MOVE_BLOCKED") <=> MoveIsBlocked(s)
            /\ ~MoveIsBlocked(s) =>
                   /\ err' = "none"
                   /\ s'.robot = [s.robot EXCEPT !.x = @ + UnitX(s.robot.dir),
                                                 !.y = @ + UnitY(s.robot.dir)]
                   /\ s'.world = s.world
      ]_vars

\* a move refused only because of a wall recorded on the far side
C8_Witness ==
    /\ op = "cmdMove"
    /\ err = "MOVE_BLOCKED"
    /\ ~AheadOutside(s)
    /\ ~WallOnCurrentCell(s)
    /\ WallOnAheadCell(s)

\* C9: when a move, pick or put fails with MOVE_BLOCKED, NO_BEEPER_HERE or
\* NO_BEEPER_IN_BAG (called directly or by stepVM), the action was a forward
\* that is blocked, a pick on a cell without items, or a put with an empty
\* bag; robot, walls, beepers, log and won are unchanged and stepCount has
\* grown by exactly 1.
C9_FailedActionFrame ==
    [][ err' \in {"MOVE_BLOCKED", "NO_BEEPER_HERE", "NO_BEEPER_IN_BAG"} =>
            /\ AttemptsAction
            /\ err' = "MOVE_BLOCKED" => (AttemptedAct = "forward" /\ MoveIsBlocked(s))
            /\ err' = "NO_BEEPER_HERE" => (AttemptedAct = "pick" /\ CountHere(s) = 0)
            /\ err' = "NO_BEEPER_IN_BAG" => (AttemptedAct = "put" /\ s.robot.bag = 0)
            /\ s'.robot = s.robot
            /\ s'.world = s.world
            /\ s'.log = s.log
            /\ s'.won = s.won
            /\ s'.stepCount = s.stepCount + 1
      ]_vars

\* the program "forward", its first step, into a cell enclosed by four walls
C9_Witness ==
    /\ program = ProgForward
    /\ op = "stepVM"
    /\ err = "MOVE_BLOCKED"
    /\ s.stepCount = 1
    /\ ~AheadOutside(s)
    /\ \A d \in Dirs : <<AheadX(s), AheadY(s), d>> \in s.world.walls
    /\ s = [s0 EXCEPT !.stepCount = 1]

\* C10: from won = false and a log without a win marker, the log never holds
\* more than one WIN, and holds one exactly when won is true; the log changes
\* only in the step in which won goes from false to true, a successful
\* forward that ends in row 0, which appends one WIN.
C10_SingleWinMarker ==
    /\ [](~s0.won => /\ WinMarkers(s.log) <= 1
                     /\ s.won <=> WinMarkers(s.log) = 1)
    /\ [][ /\ (s'.log # s.log) <=> (~s.won /\ s'.won)
           /\ (~s.won /\ s'.won) =>
                  /\ s'.log = Append(s.log, "WIN")
                  /\ AttemptsAction
                  /\ AttemptedAct = "forward"
                  /\ err' = "none"
                  /\ ~MoveIsBlocked(s)
                  /\ s'.robot.y = 0
         ]_vars

\* a successful move inside the win row after the move that won
C10_Witness ==
    /\ ~s0.won
    /\ s0.robot.y = 1
    /\ s.won
    /\ op = "cmdMove"
    /\ err = "none"
    /\ s.robot.y = 0
    /\ s.robot.x # s0.robot.x
    /\ s.stepCount = 3
    /\ s.log = <<"WIN">>

\* the item count of a cell, 0 for a cell the mapping has no entry for
CountAt(st, x, y) ==
    IF <<x, y>> \in DOMAIN st.world.beepers THEN st.world.beepers[<<x, y>>] ELSE 0

\* the item counts of all cells but the robot's are the same in st and st2
OtherCellsSame(st, st2) ==
    \A x \in 0..(st.world.width - 1), y \in 0..(st.world.height - 1) :
        (x # st.robot.x \/ y # st.robot.y) => CountAt(st2, x, y) = CountAt(st, x, y)

\* C12: with budget left, a pick (called directly or by stepVM) throws
\* NO_BEEPER_HERE iff the robot's cell holds 0 items, and otherwise takes 1
\* from that cell's count and adds 1 to bag; a put throws NO_BEEPER_IN_BAG iff
\* bag is 0, and otherwise takes 1 from bag and adds 1 to that cell's count;
\* the other cells and the pose are unchanged; no cell count and no bag value
\* is ever negative.
C12_PickPutExact ==
    /\ [](/\ s.robot.bag >= 0
          /\ \A k \in DOMAIN s.world.beepers : s.world.beepers[k] >= 0)
    /\ [][ (AttemptsAction /\ AttemptedAct = "pick" /\ s.stepCount < s.maxSteps) =>
               /\ (err' = "NO_BEEPER_HERE") <=> (CountHere(s) = 0)
               /\ CountHere(s) # 0 =>
                      /\ err' = "none"
                      /\ CountHere(s') = CountHere(s) - 1
                      /\ s'.robot = [s.robot EXCEPT !.bag = @ + 1]
                      /\ OtherCellsSame(s, s')
         ]_vars
    /\ [][ (AttemptsAction /\ AttemptedAct = "put" /\ s.stepCount < s.maxSteps) =>
               /\ (err' = "NO_BEEPER_IN_BAG") <=> (s.robot.bag = 0)
               /\ s.robot.bag # 0 =>
                      /\ err' = "none"
                      /\ CountHere(s') = CountHere(s) + 1
                      /\ s'.robot = [s.robot EXCEPT !.bag = @ - 1]
                      /\ OtherCellsSame(s, s')
         ]_vars

\* the bag emptied onto a cell that held an item, one item then picked up
C12_Witness ==
    /\ op = "cmdPick"
    /\ err = "none"
    /\ s0.robot.bag = MaxBag
    /\ s.robot.bag = 1
    /\ CountHere(s) = MaxBag
    /\ CountHere(s0) = 1
    /\ s.stepCount = MaxBag + 1

----------------------------------------------------------------------------
(* The climb to the win row on the default level (SpecClimb) *)

\* the forward actions of ProgClimb that have succeeded: a straight-line
\* program advances pc by one on each
Forwards == vm.pc

\* only the program has run, and each of its actions has succeeded
OnlyForwards == op \in {"init", "stepVM"} /\ s.stepCount = Forwards

\* C11: on the 8x8 grid with border walls only, from column 0, row 7, facing
\* north, not won: after k successful forward actions the robot is at row
\* 7 - k in column 0; won is false for every k <= 6 (at row 3 after four
\* moves) and goes true exactly on the 7th move, the one that sets the row
\* to 0, which appends the only WIN marker the log ever holds, whatever
\* actions are issued after it.
C11_ClimbWins ==
    /\ [](OnlyForwards =>
             /\ s.robot = [s0.robot EXCEPT !.y = 7 - Forwards]
             /\ Forwards <= 6 => ~s.won
             /\ Forwards = 4 => (s.robot.y = 3 /\ ~s.won)
             /\ Forwards = 7 => (s.won /\ s.robot.y = 0)
             /\ err = "none")
    /\ [](/\ s.won <=> Forwards = 7
          /\ Forwards <= 7
          /\ s.log = IF s.won THEN <<"WIN">> ELSE <<>>)
    /\ [][ (~s.won /\ s'.won) =>
               /\ op' = "stepVM"
               /\ Forwards = 6
               /\ Forwards' = 7
               /\ s.robot.y = 1
               /\ s'.robot.y = 0
         ]_vars

\* seven forwards have won, and a turn and a move along the win row after
\* them have left the single WIN marker
C11_Witness ==
    /\ s0.robot = LevelStart
    /\ s0.world.width = 8
    /\ s0.world.height = 8
    /\ Forwards = 7
    /\ s.won
    /\ op = "cmdMove"
    /\ err = "none"
    /\ s.robot.y = 0
    /\ s.robot.x = 1
    /\ s.stepCount = 9
    /\ s.log = <<"WIN">>

----------------------------------------------------------------------------
(* Reachability of the win row (SpecReach) *)

Cells(world) == (0..(world.width - 1)) \X (0..(world.height - 1))

\* a and b are 4-adjacent cells of the grid and no wall is recorded between
\* them, on a's side or on b's
Open(world, a, b) ==
    /\ a \in Cells(world)
    /\ b \in Cells(world)
    /\ \E d \in Dirs :
          /\ b = <<a[1] + UnitX(d), a[2] + UnitY(d)>>
          /\ <<a[1], a[2], d>> \notin world.walls
          /\ <<b[1], b[2], Reverse(d)>> \notin world.walls

\* the cells one open step away from cell a
OpenNeighbours(world, a) ==
    { b \in { <<a[1] + UnitX(d), a[2] + UnitY(d)>> : d \in Dirs } : Open(world, a, b) }

\* the cells joined to a cell of S by a path of open steps; every cell of S
\* outside frontier has its open neighbours in S
RECURSIVE Component(_, _, _)
Component(world, S, frontier) ==
    LET new == UNION { OpenNeighbours(world, a) : a \in frontier } \ S
    IN  IF new = {} THEN S ELSE Component(world, S \cup new, new)

NoRepeats(seq) == \A i, j \in 1..Len(seq) : i # j => seq[i] # seq[j]

\* C13: goalReachable(s) returns true iff a path of 4-adjacent in-bounds
\* cells, no two consecutive ones separated by a wall recorded on either
\* side, leads from the robot's cell to a cell of row 0, and false when the
\* robot's connected component has no cell of row 0; the search ends, takes
\* no more entries off the queue than its expansions put on it, and expands
\* no cell twice and no cell outside the component.
C13_GoalReachableIsPathExistence ==
    op = "goalReachable" =>
        LET start == {<<s.robot.x, s.robot.y>>}
            component == Component(s.world, start, start)
        IN
        /\ result.found <=> (\E cell \in component : cell[2] = 0)
        /\ NoRepeats(result.expanded)
        /\ \A i \in 1..Len(result.expanded) : result.expanded[i] \in component
        /\ result.dequeued <= 4 * Len(result.expanded) + 1

\* the robot in a pocket of two cells closed off from the win row
C13_Witness ==
    /\ op = "goalReachable"
    /\ ~result.found
    /\ Len(result.expanded) = 2
    /\ result.dequeued = 2
    /\ s.robot.y > 0

----------------------------------------------------------------------------
(* A State and its clone (SpecClone) *)

\* the State at refs[i], as its holder reads it
StateAt(i) == read(heap, refs[i])

\* C14: c = cloneState(s) returns a State equal to s and leaves s as it
\* was; after it, no engine action and no VM step applied to c changes any
\* component of s (pose, bag, walls, beepers, log, stepCount, won), and none
\* applied to s changes any component of c.
C14_CloneIsIndependent ==
    /\ [](s = StateAt(1))
    /\ [][ /\ op' = "cloneState" =>
                 (read(heap', refs'[1]) = s /\ read(heap', refs'[2]) = s)
           /\ op' = "onClone" => read(heap', refs[1]) = s
           /\ op' = "onOriginal" => read(heap', refs[2]) = read(heap, refs[2])
         ]_vars

\* the clone has put down an item, moved, won and turned; the original is
\* as it was when it was cloned
C14_Witness ==
    /\ Len(refs) = 2
    /\ op = "onClone"
    /\ s = s0
    /\ StateAt(2).robot.y # s.robot.y
    /\ StateAt(2).robot.dir # s.robot.dir
    /\ StateAt(2).robot.bag # s.robot.bag
    /\ StateAt(2).world.beepers # s.world.beepers
    /\ StateAt(2).log = <<"WIN">>
    /\ s.log = <<>>
    /\ StateAt(2).won
    /\ ~s.won
    /\ StateAt(2).stepCount > s.stepCount

----------------------------------------------------------------------------
(* The layout of compiled programs (SpecCompile) *)

\* the number of instructions a statement sequence compiles to: one per
\* action, a BranchIfFalse and a Jump per If and per While
RECURSIVE Size(_)
Size(stmts) ==
    IF stmts = <<>> THEN 0
    ELSE LET st == Head(stmts)
             own == IF st.t = "CMD" THEN 1
                    ELSE IF st.t = "WHILE" THEN 2 + Size(st.body)
                    ELSE 2 + Size(st.then) + (IF "else" \in DOMAIN st THEN Size(st.else) ELSE 0)
         IN  own + Size(Tail(stmts))

\* every statement of the sequence, nested ones too, with the index at
\* which its instructions start when the sequence starts at index base
RECURSIVE Placed(_, _)
Placed(stmts, base) ==
    IF stmts = <<>> THEN {}
    ELSE LET st == Head(stmts)
             inner == IF st.t = "CMD" THEN {}
                      ELSE IF st.t = "WHILE" THEN Placed(st.body, base + 1)
                      ELSE Placed(st.then, base + 1)
                           \cup (IF "else" \in DOMAIN st
                                 THEN Placed(st.else, base + 2 + Size(st.then))
                                 ELSE {})
         IN  {[st |-> st, at |-> base]} \cup inner
             \cup Placed(Tail(stmts), base + Size(<<st>>))

\* the instruction at a 0-based index
InstrAt(i) == vm.instr[i + 1]

\* the number of BranchIfFalse instructions at the indices from..(to - 1)
Branches(from, to) ==
    Cardinality({ i \in from..(to - 1) : InstrAt(i).t = "JMP_IF_FALSE" })

\* the number of If and While statements in a sequence, nested ones too
Conditionals(stmts) == Cardinality({ p \in Placed(stmts, 0) : p.st.t # "CMD" })

\* C15: for every If of the program, at any depth: compile emits one
\* BranchIfFalse for it, on its condition, directly followed by the then
\* instructions and one Jump.  With an else sequence the BranchIfFalse
\* targets the index of the first else instruction (the one after the Jump)
\* and the Jump targets the index immediately after the last else
\* instruction; without one the BranchIfFalse targets the index immediately
\* after the instructions emitted for the If.
C15_IfLayout ==
    op = "compile" =>
        /\ Len(vm.instr) = Size(program)
        /\ \A p \in Placed(program, 0) :
              p.st.t = "IF" =>
                  LET jump == p.at + 1 + Size(p.st.then)
                      elseSize == IF "else" \in DOMAIN p.st THEN Size(p.st.else) ELSE 0
                      end == p.at + Size(<<p.st>>)
                  IN  /\ InstrAt(p.at).t = "JMP_IF_FALSE"
                      /\ InstrAt(p.at).cond = p.st.cond
                      /\ InstrAt(p.at).line = p.st.line
                      /\ InstrAt(jump).t = "JMP"
                      /\ InstrAt(jump).line = p.st.line
                      /\ Branches(p.at, end) = 1 + Conditionals(p.st.then)
                            + (IF "else" \in DOMAIN p.st THEN Conditionals(p.st.else) ELSE 0)
                      /\ \A q \in Placed(p.st.then, p.at + 1) :
                            q.at < jump /\ (q.st.t = "CMD" => InstrAt(q.at) = Act(q.st.name, q.st.line))
                      /\ "else" \in DOMAIN p.st =>
                            /\ InstrAt(p.at).to = jump + 1
                            /\ InstrAt(jump).to = jump + 1 + elseSize
                            /\ InstrAt(jump).to = end
                      /\ "else" \notin DOMAIN p.st => InstrAt(p.at).to = end

\* if (!obstacleAhead) { turnLeft } else { forward } compiled: the
\* BranchIfFalse targets the forward, the Jump the index after it
C15_Witness ==
    /\ op = "compile"
    /\ program = << IfElse(Not(Atom("obstacleAhead")),
                           << Cmd("turnLeft", 1) >>, << Cmd("forward", 1) >>, 3) >>
    /\ Len(vm.instr) = 4
    /\ InstrAt(0).t = "JMP_IF_FALSE"
    /\ InstrAt(0).to = 3
    /\ InstrAt(1) = Act("turnLeft", 1)
    /\ InstrAt(2).t = "JMP"
    /\ InstrAt(2).to = 4
    /\ InstrAt(3) = Act("forward", 1)

\* C16: for every While of the program, at any depth: compile emits a
\* BranchIfFalse on its condition at the loop-start index, then the body
\* instructions, then one Jump whose target is the loop-start index, the
\* BranchIfFalse itself; the BranchIfFalse targets the index immediately
\* after that Jump.
C16_WhileLayout ==
    op = "compile" =>
        \A p \in Placed(program, 0) :
            p.st.t = "WHILE" =>
                LET jump == p.at + 1 + Size(p.st.body) IN
                /\ InstrAt(p.at).t = "JMP_IF_FALSE"
                /\ InstrAt(p.at).cond = p.st.cond
                /\ InstrAt(p.at).line = p.st.line
                /\ \A q \in Placed(p.st.body, p.at + 1) :
                      q.at < jump /\ (q.st.t = "CMD" => InstrAt(q.at) = Act(q.st.name, q.st.line))
                /\ Branches(p.at, jump + 1) = 1 + Conditionals(p.st.body)
                /\ InstrAt(jump).t = "JMP"
                /\ InstrAt(jump).line = p.st.line
                /\ InstrAt(jump).to = p.at
                /\ InstrAt(InstrAt(jump).to).t = "JMP_IF_FALSE"
                /\ InstrAt(p.at).to = jump + 1

\* forward  while (!obstacleAhead) { turnLeft } compiled: the loop starts
\* at index 1
C16_Witness ==
    /\ op = "compile"
    /\ program = << Cmd("forward", 1),
                    While(Not(Atom("obstacleAhead")), << Cmd("turnLeft", 1) >>, 2) >>
    /\ Len(vm.instr) = 4
    /\ InstrAt(1).t = "JMP_IF_FALSE"
    /\ InstrAt(1).to = 4
    /\ InstrAt(2) = Act("turnLeft", 1)
    /\ InstrAt(3) = Jmp(1, 2)

----------------------------------------------------------------------------
(* The VM's modes (SpecVM) and a failed Act (Spec) *)

\* C17: makeVM on an empty instruction sequence is Done, on any other one
\* Running with pc = 0; stepVM on a Done VM, or with a state that is already
\* won, returns no line, leaves the VM Done and changes neither pc nor the
\* state; a Done VM is never Running again.
C17_DoneIsFinal ==
    /\ [](op = "init" => /\ vm.pc = 0
                         /\ vm.done <=> Len(vm.instr) = 0)
    /\ [][ (op' = "stepVM" /\ (vm.done \/ s.won)) =>
               /\ ret' = NoLine
               /\ err' = "none"
               /\ vm'.done
               /\ vm'.pc = vm.pc
               /\ vm'.instr = vm.instr
               /\ s' = s
         ]_vars
    /\ [][vm.done => vm'.done]_vars

\* if (obstacleAhead) { turnRight } else { forward }  forward: the branch
\* was stepped, a direct move won, and the next step found the state won
\* with the VM Running in the middle of the program
C17_Witness ==
    /\ program = ProgIfElse
    /\ op = "stepVM"
    /\ ~s0.won
    /\ s.won
    /\ s.stepCount = 1
    /\ vm.done
    /\ vm.pc = 3
    /\ vm.pc < Len(vm.instr)
    /\ ret = NoLine

\* the error the engine raises for an action attempted in a state
FailureOf(act, st) ==
    IF st.stepCount >= st.maxSteps THEN "STEP_LIMIT"
    ELSE IF act = "forward" /\ MoveIsBlocked(st) THEN "MOVE_BLOCKED"
    ELSE IF act = "pick" /\ CountHere(st) = 0 THEN "NO_BEEPER_HERE"
    ELSE IF act = "put" /\ st.robot.bag = 0 THEN "NO_BEEPER_IN_BAG"
    ELSE "none"

\* C18: a stepVM call that executes an Act raises the engine's error when
\* the action fails, and then neither pc nor done has changed and no line
\* is returned; when the action succeeds pc advances by one; either way
\* the call makes one attempt, so stepCount grows by at most 1.
C18_FailedActLeavesVM ==
    [][ StepsAct =>
            /\ err' = FailureOf(AttemptedAct, s)
            /\ err' # "none" =>
                   /\ vm'.pc = vm.pc
                   /\ vm'.done = vm.done
                   /\ vm' = vm
                   /\ ret' = NoLine
            /\ err' = "none" => vm'.pc = vm.pc + 1
            /\ s'.stepCount <= s.stepCount + 1
      ]_vars

\* if (beepersHere) { pick } ...: the branch was stepped, a direct pick took
\* the only item, and the pick of the program failed
C18_Witness ==
    /\ program = ProgBeepers
    /\ op = "stepVM"
    /\ err = "NO_BEEPER_HERE"
    /\ vm.pc = 1
    /\ ~vm.done
    /\ s.stepCount = 2
    /\ CountHere(s0) = 1

----------------------------------------------------------------------------
(* parseScript on the files of a program (SpecParse) *)

CmdNames == {"forward", "turnLeft", "turnRight", "pick", "put"}

\* the action names of the commands of a statement sequence, nested ones
\* included
RECURSIVE CmdNamesOf(_)
CmdNamesOf(stmts) ==
    UNION { IF stmts[i].t = "CMD" THEN {stmts[i].name}
            ELSE IF stmts[i].t = "WHILE" THEN CmdNamesOf(stmts[i].body)
            ELSE IF hasElse(stmts[i])
            THEN CmdNamesOf(stmts[i].then) \cup CmdNamesOf(stmts[i].else)
            ELSE CmdNamesOf(stmts[i].then) : i \in 1..Len(stmts) }

\* a statement sequence with every line number set to 0
RECURSIVE NoLines(_)
NoLines(stmts) ==
    [i \in 1..Len(stmts) |->
        LET st == [stmts[i] EXCEPT !.line = 0] IN
        IF st.t = "CMD" THEN st
        ELSE IF st.t = "WHILE" THEN [st EXCEPT !.body = NoLines(@)]
        ELSE IF hasElse(st) THEN [st EXCEPT !.then = NoLines(@), !.else = NoLines(@)]
        ELSE [st EXCEPT !.then = NoLines(@)]]

\* the file is the text of the program in the given form
IsText(form) == \E sep \in {<<" ">>, <<"\n">>} : src.text = fileText(form, sep, program)

\* the file is a document
IsDocument == src.json.j \in {"object", "array"}

\* Files in the brace form and documents parse to the program they were
\* written from, whenever its action names are among the five.
ParseReturnsProgram ==
    (op = "parseScript" /\ CmdNamesOf(program) \subseteq CmdNames /\ ~IsText("legacy")) =>
        /\ result.ok
        /\ NoLines(result.v) = NoLines(program)

\* C19: parseScript fails, with the unknown-command message, on a text file
\* or a document in which an action is named otherwise than by one of the
\* five names; so every Act of a VM built from a parsed file names one of
\* the five, and a step that reaches the last branch of execAct executes
\* put.
C19_UnknownActionFails ==
    /\ []((op = "parseScript" /\ ~(CmdNamesOf(program) \subseteq CmdNames)) =>
              /\ ~result.ok
              /\ IsDocument => result.err = "JSON Parse/Schema-Fehler: JSON: Unbekanntes Command"
              /\ ~IsDocument => result.err = "Unbekanntes Command")
    /\ [](op \in {"buildVm", "stepVM"} =>
              \A i \in 1..Len(vm.instr) :
                  vm.instr[i].t = "ACT" => vm.instr[i].act \in CmdNames)
    /\ [][ (StepsAct /\ AttemptedAct \notin {"forward", "turnLeft", "turnRight", "pick"}) =>
               AttemptedAct = "put" ]_vars

\* program main { Forward };  active=main  was refused
C19_Witness ==
    /\ program = << Cmd("Forward", 1) >>
    /\ src.text = fileText("brace", <<" ">>, program)
    /\ op = "parseScript"
    /\ ~result.ok
    /\ result.err = "Unbekanntes Command"

\* C20 as stated: the text of a program of one or more statements in the
\* legacy form, and its text in the brace form, both parse, and both to the
\* statements they were written from.
C20_BothFormsParse ==
    (/\ op = "parseScript"
     /\ Len(program) >= 1
     /\ CmdNamesOf(program) \subseteq CmdNames
     /\ IsText("legacy") \/ IsText("brace")) =>
        /\ result.ok
        /\ NoLines(result.v) = NoLines(program)

----------------------------------------------------------------------------
(* The exhausted step budget (Spec) *)

\* C21: a call that failed with STEP_LIMIT leaves stepCount = maxSteps; from
\* a state with stepCount = maxSteps every action attempt, called directly
\* or by stepVM, fails with STEP_LIMIT, and no call changes any component of
\* the Simulation State any more (a stepVM call that attempts an action
\* leaves the VM unchanged as well).
C21_StepLimitIsTerminal ==
    /\ [](err = "STEP_LIMIT" => s.stepCount = s.maxSteps)
    /\ [][ s.stepCount >= s.maxSteps =>
               /\ s' = s
               /\ AttemptsAction => err' = "STEP_LIMIT"
               /\ StepsAct => vm' = vm
         ]_vars

\* stepVM refused an Act of a running program after direct calls and steps
\* used up the whole budget, the robot having moved or turned meanwhile
C21_Witness ==
    /\ op = "stepVM"
    /\ err = "STEP_LIMIT"
    /\ ~vm.done
    /\ vm.instr[vm.pc + 1].t = "ACT"
    /\ s0.stepCount = 0
    /\ s.stepCount = s.maxSteps
    /\ s.robot # s0.robot

----------------------------------------------------------------------------
(* Jump targets of compiled programs (SpecCompile) *)

\* the indices of the Jump and BranchIfFalse instructions of vm.instr
JumpIndices == { i \in 0..(Len(vm.instr) - 1) : InstrAt(i).t \in {"JMP", "JMP_IF_FALSE"} }

\* C22: in compile(program), for programs with nested If and While too, the
\* target of every Jump and BranchIfFalse is an integer in 0..length of the
\* instruction sequence; no placeholder target -1 is left.
C22_TargetsResolved ==
    op = "compile" =>
        \A i \in JumpIndices :
            /\ InstrAt(i).to \in 0..Len(vm.instr)
            /\ InstrAt(i).to # -1

\* an If nested in a While compiled: a target at the very end of the
\* sequence, and the targets of the inner If inside it
C22_Witness ==
    /\ op = "compile"
    /\ \E p \in Placed(program, 0) :
          /\ p.st.t = "WHILE"
          /\ \E q \in Placed(p.st.body, p.at + 1) : q.st.t = "IF"
    /\ Cardinality(JumpIndices) = 4
    /\ \E i \in JumpIndices : InstrAt(i).to = Len(vm.instr)
    /\ \E i \in JumpIndices : InstrAt(i).to = 0

----------------------------------------------------------------------------
(* Done after a step (SpecVM) *)

\* C23: after a stepVM call that returned normally the VM is Done iff the
\* state is won or pc is at or past the instruction count.  The step whose
\* action sets won returns that action's line and leaves the VM Done, and a
\* step on a won state executes nothing: pc and the state stay as they are
\* and no line is returned.
C23_DoneIffWonOrEnd ==
    /\ []((op = "stepVM" /\ err = "none") =>
              (vm.done <=> (s.won \/ vm.pc >= Len(vm.instr))))
    /\ [][ (op' = "stepVM" /\ ~s.won /\ s'.won) =>
               /\ vm'.done
               /\ vm'.pc = vm.pc + 1
               /\ ret' = vm.instr[vm.pc + 1].line
         ]_vars
    /\ [][ (op' = "stepVM" /\ s.won) =>
               /\ vm'.done
               /\ vm'.pc = vm.pc
               /\ s' = s
               /\ ret' = NoLine
         ]_vars

\* a forward of the program moved the robot onto the win row with
\* instructions still to come: the VM is Done in the middle of the program
C23_Witness ==
    /\ op = "stepVM"
    /\ err = "none"
    /\ ~s0.won
    /\ s.won
    /\ s.log = <<"WIN">>
    /\ vm.done
    /\ vm.pc >= 1
    /\ vm.pc < Len(vm.instr)
    /\ vm.instr[vm.pc].t = "ACT"
    /\ ret = vm.instr[vm.pc].line

----------------------------------------------------------------------------
(* The line of a step and the current line (SpecVM) *)

\* C24: a stepVM call that executes an instruction returns the line of the
\* instruction that was at pc before the call; currentLine returns the line
\* of the instruction at pc while the VM is Running, and no line when it is
\* Done.  A Running VM always has an instruction at pc.
C24_LineOfExecutedInstr ==
    /\ [][ (op' = "stepVM" /\ dispatches(vm, s) /\ err' = "none") =>
               ret' = vm.instr[vm.pc + 1].line
         ]_vars
    /\ [](~vm.done => (vm.pc >= 0 /\ vm.pc < Len(vm.instr)))
    /\ [](op = "currentLine" =>
              result = IF vm.done THEN NoLine ELSE vm.instr[vm.pc + 1].line)

\* after a step that executed an action and left the VM Running on an
\* instruction of another line, currentLine was called: the step returned
\* the line of the action, currentLine the line of the next instruction
C24_Witness ==
    /\ op = "currentLine"
    /\ ~vm.done
    /\ vm.pc >= 1
    /\ vm.instr[vm.pc].t = "ACT"
    /\ s.stepCount = 1
    /\ ret = vm.instr[vm.pc].line
    /\ result = vm.instr[vm.pc + 1].line
    /\ ret # result

----------------------------------------------------------------------------
(* The obstacle atoms and the move (Spec) *)

\* C25: with step budget left, a forward (called directly or by stepVM)
\* fails with MOVE_BLOCKED iff obstacleAhead evaluates to true in the state
\* it is attempted in; obstacleLeft is the value obstacleAhead has after a
\* turnLeft of that state and obstacleRight the one after a turnRight.
C25_ObstacleAtomsMatchMove ==
    /\ [][ (AttemptsAction /\ AttemptedAct = "forward" /\ s.stepCount < s.maxSteps) =>
               ((err' = "MOVE_BLOCKED") <=> evalCond(Atom("obstacleAhead"), s))
         ]_vars
    /\ [][ (AttemptsAction /\ AttemptedAct = "turnLeft" /\ err' = "none") =>
               (evalCond(Atom("obstacleAhead"), s') <=> evalCond(Atom("obstacleLeft"), s))
         ]_vars
    /\ [][ (AttemptsAction /\ AttemptedAct = "turnRight" /\ err' = "none") =>
               (evalCond(Atom("obstacleAhead"), s') <=> evalCond(Atom("obstacleRight"), s))
         ]_vars

\* after a left turn a forward was refused because of a wall recorded only
\* on the far side of the edge ahead, with the way to the right clear
C25_Witness ==
    /\ op = "cmdMove"
    /\ err = "MOVE_BLOCKED"
    /\ s.robot.dir # s0.robot.dir
    /\ evalCond(Atom("obstacleAhead"), s)
    /\ ~evalCond(Atom("obstacleRight"), s)
    /\ ~AheadOutside(s)
    /\ ~WallOnCurrentCell(s)
    /\ WallOnAheadCell(s)

----------------------------------------------------------------------------
(* Walls seen from both sides (SpecReach) *)

\* the state with the robot on cell a, facing d
Facing(st, a, d) == [st EXCEPT !.robot.x = a[1], !.robot.y = a[2], !.robot.dir = d]

\* a wall inside the grid that is recorded on one side of its edge only
OneSidedWalls(world) ==
    { k \in world.walls :
        /\ <<k[1] + UnitX(k[3]), k[2] + UnitY(k[3])>> \in Cells(world)
        /\ <<k[1] + UnitX(k[3]), k[2] + UnitY(k[3]), Reverse(k[3])>> \notin world.walls }

\* C26: for every wall set, one-sided records included, and every two
\* adjacent in-bounds cells a and b: the move from a to b is blocked iff the
\* move from b to a is, and goalReachable's canStep(a, b) holds exactly when
\* isDirClear does and cmdMove from a towards b is not refused as blocked.
C26_BlockedBothWays ==
    \A a \in Cells(s.world), d \in Dirs :
        LET b == <<a[1] + UnitX(d), a[2] + UnitY(d)>> IN
        b \in Cells(s.world) =>
            /\ isDirClear(Facing(s, a, d), d) <=> isDirClear(Facing(s, b, Reverse(d)), Reverse(d))
            /\ canStep(s.world, a[1], a[2], b[1], b[2]) <=> isDirClear(Facing(s, a, d), d)
            /\ canStep(s.world, a[1], a[2], b[1], b[2])
                   <=> cmdMove(Facing(s, a, d)).err # "MOVE_BLOCKED"
            /\ canStep(s.world, a[1], a[2], b[1], b[2]) <=> canStep(s.world, b[1], b[2], a[1], a[2])

\* two walls, each recorded on one side only and on the far side as seen
\* from the robot, close the win row off: goalReachable found no way
C26_Witness ==
    /\ op = "goalReachable"
    /\ ~result.found
    /\ Cardinality(OneSidedWalls(s.world)) = MaxWalls
    /\ \A k \in OneSidedWalls(s.world) : k[3] = "S" /\ k[2] = 0
    /\ s.robot.y = 1

----------------------------------------------------------------------------
(* Empty blocks (SpecParse) *)

\* no While of the sequence has an empty body and no If an empty then
\* sequence, nested ones included
RECURSIVE NoEmptyBlocks(_)
NoEmptyBlocks(stmts) ==
    \A i \in 1..Len(stmts) :
        LET st == stmts[i] IN
        IF st.t = "CMD" THEN TRUE
        ELSE IF st.t = "WHILE" THEN st.body # <<>> /\ NoEmptyBlocks(st.body)
        ELSE /\ st.then # <<>>
             /\ NoEmptyBlocks(st.then)
             /\ (hasElse(st) => NoEmptyBlocks(st.else))

\* C27 as stated: every While that parseScript returns has a non-empty body
\* and every If a non-empty then sequence.
C27_NoEmptyBlocks ==
    (op = "parseScript" /\ result.ok) => NoEmptyBlocks(result.v)

----------------------------------------------------------------------------
(* The elseIfs list of a document and the else-if cascade of a text       *)
(* (SpecParse)                                                             *)

\* the file is a { steps } document
IsStepsDocument == src.json.j = "object" /\ "steps" \in DOMAIN src.json.v

\* the statements of the { steps } document
Steps == src.json.v["steps"].v

\* st carries the else-if entries, in their order, as a chain of Ifs each
\* the sole element of the else sequence of the one before, st's own else
\* being the first; the last one has the else sequence E, or none
RECURSIVE Cascade(_, _, _)
Cascade(st, entries, E) ==
    IF entries = <<>>
    THEN IF E.j = "undefined" THEN ~hasElse(st)
         ELSE hasElse(st) /\ NoLines(st.else) = NoLines(jsonToStmtArray(E, 1).v)
    ELSE /\ hasElse(st)
         /\ Len(st.else) = 1
         /\ st.else[1].t = "IF"
         /\ st.else[1].cond = jsonToCond(get(Head(entries), "condition")).v
         /\ NoLines(st.else[1].then)
                = NoLines(jsonToStmtArray(get(Head(entries), "then"), 1).v)
         /\ Cascade(st.else[1], Tail(entries), E)

\* C28: the { steps } document of a program, its else-if cascades written
\* as elseIfs lists, parses to the statements that the text of the program
\* (else-if cascades written as  else if) parses to, line numbers aside;
\* an If with the list e1..en and the else E has e1 as the sole statement
\* of its else sequence, each next entry as the sole statement of the else
\* of the one before, and E (or no else) on en.
C28_ElseIfsAsNestedElse ==
    (op = "parseScript" /\ IsStepsDocument /\ CmdNamesOf(program) \subseteq CmdNames) =>
        LET text == parseScript([text |-> fileText("brace", <<" ">>, program),
                                 json |-> J("undefined", <<>>)])
        IN  /\ result.ok
            /\ text.ok
            /\ NoLines(result.v) = NoLines(text.v)
            /\ Len(result.v) = Len(Steps)
            /\ \A i \in 1..Len(Steps) :
                  get(Steps[i], "elseIfs").j = "array" =>
                      /\ result.v[i].t = "IF"
                      /\ Cascade(result.v[i], get(Steps[i], "elseIfs").v, get(Steps[i], "else"))

\* a document If with two elseIfs entries and no else, parsed: the second
\* entry is the innermost If and has no else
C28_Witness ==
    /\ op = "parseScript"
    /\ IsStepsDocument
    /\ result.ok
    /\ Len(Steps) = 1
    /\ get(Steps[1], "elseIfs").j = "array"
    /\ Len(get(Steps[1], "elseIfs").v) = 2
    /\ get(Steps[1], "else").j = "undefined"
    /\ result.v[1].else[1].cond = Atom("obstacleLeft")
    /\ result.v[1].else[1].else[1].cond = Atom("obstacleRight")
    /\ ~hasElse(result.v[1].else[1].else[1])

----------------------------------------------------------------------------
(* The game shell (the page component): its React state is initialState, *)
(* state, source, parseError, vm, running and activeLine.  A handler      *)
(* reads the values of the render it was created in and issues set       *)
(* calls; the last set call of a field wins, and the next render shows    *)
(* them all.  The States are objects in the heap: refs holds              *)
(* initialState, state, and the state of the render before.               *)

\* the blocked cells a shuffle can pick; the shell asks for 8 on the 8 x 8
\* board, the model for RerollCount on the GridW x GridH board
RerollCount == 1

\* the sets randomBlockedCells can return: count of the candidates, or all
\* of them when there are fewer
randomBlockedCells(width, height, count, exclude, forbidRowY) ==
    LET candidates == { keyXY(x, y) : x \in 0..(width - 1),
                                      y \in (0..(height - 1)) \ {forbidRowY} } \ exclude
        n == IF count < Cardinality(candidates) THEN count ELSE Cardinality(candidates)
    IN  { blocked \in SUBSET candidates : Cardinality(blocked) = n }

\* border walls and the four walls of every blocked cell
blockedWalls(w, h, blocks) ==
    addBorderWalls(w, h, {}) \cup UNION { addBlockedCell(w, h, {}, k[1], k[2]) : k \in blocks }

\* makeDefaultLevel, blocked being what randomBlockedCells returned
makeDefaultLevel(width, height, blocked) ==
    [world |-> [width |-> width, height |-> height,
                walls |-> blockedWalls(width, height, blocked), beepers |-> <<>>],
     robot |-> [x |-> 0, y |-> height - 1, dir |-> "N", bag |-> 0],
     stepCount |-> 0,
     maxSteps |-> MaxSteps,
     log |-> <<>>,
     won |-> FALSE]

\* rerollObstacles(old, count), blocks being what randomBlockedCells returned
rerollObstacles(old, blocks) ==
    [old EXCEPT !.world.walls = blockedWalls(old.world.width, old.world.height, blocks),
                !.stepCount = 0,
                !.log = <<>>,
                !.won = FALSE]

\* useState<VM | null>(null)
NullVM == [pc |-> -1, instr |-> <<>>, done |-> FALSE]

\* useState<string | null>(null): !source holds of null and of the empty text
NoFile == [text |-> <<>>, json |-> J("undefined", <<>>)]

\* a State built as an object literal in the heap h
allocState(h, st) ==
    LET h1 == alloc(h, st.world.walls)
        h2 == alloc(h1, st.world.beepers)
        h3 == alloc(h2, st.robot)
        h4 == alloc(h3, [width |-> st.world.width, height |-> st.world.height,
                         walls |-> Len(h1), beepers |-> Len(h2)])
        h5 == alloc(h4, st.log)
    IN  Allocated(alloc(h5, [world |-> Len(h4), robot |-> Len(h3),
                             stepCount |-> st.stepCount, maxSteps |-> st.maxSteps,
                             log |-> Len(h5), won |-> st.won]))

\* where collect leaves initialState, state and the state of the render before
ShellRefs == <<6, 12, 18>>

\* the heap once the objects no reference reaches are collected: the
\* objects of the States at roots, in their order
collect(h, roots) ==
    LET first == allocState(<<>>, read(h, roots[1]))
        second == allocState(first.heap, read(h, roots[2]))
    IN  allocState(second.heap, read(h, roots[3])).heap

\* what a handler sees: the values of the current render; called lists the
\* VM calls the handler has made, caught is the message its catch received
Shell ==
    [initialState |-> refs[1], state |-> refs[2], source |-> src, parseError |-> parseError,
     vm |-> vm, running |-> running, activeLine |-> activeLine, heap |-> heap,
     called |-> <<>>, caught |-> "none"]

resetToInitialClearsError(sh) ==
    LET c == cloneState(sh.heap, sh.initialState) IN
    [sh EXCEPT !.running = FALSE, !.vm = NullVM, !.activeLine = NoLine,
               !.heap = c.heap, !.state = c.ref, !.parseError = "none"]

\* setRunning(false); setVM(null); setActiveLine(null);
\* setState(cloneState(initialState))
resetToInitial(sh) ==
    LET c == cloneState(sh.heap, sh.initialState) IN
    [sh EXCEPT !.running = FALSE, !.vm = NullVM, !.activeLine = NoLine,
               !.heap = c.heap, !.state = c.ref]

\* reroll, blocks being what the shuffle picked: the new initial state is
\* an object literal; initialState and state are clones of it
reroll(sh, blocks) ==
    LET nextInitial == allocState(sh.heap, rerollObstacles(read(sh.heap, sh.initialState), blocks))
        a == cloneState(nextInitial.heap, nextInitial.ref)
        b == cloneState(a.heap, nextInitial.ref)
    IN  [sh EXCEPT !.running = FALSE, !.vm = NullVM, !.activeLine = NoLine,
                   !.heap = b.heap, !.initialState = a.ref, !.state = b.ref]

\* parseScript, compile, makeVM, setVM, setActiveLine,
\* setState(cloneState(initialState)); thrown when parseScript threw
buildVmFromSource(sh) ==
    LET built(parsed) ==
            IF ~parsed.ok THEN [thrown |-> TRUE, message |-> parsed.err, vm |-> NullVM, sh |-> sh]
            ELSE LET newVM == makeVM(compile(parsed.v))
                     c == cloneState(sh.heap, sh.initialState)
                 IN  [thrown |-> FALSE, message |-> "none", vm |-> newVM,
                      sh |-> [sh EXCEPT !.vm = newVM, !.activeLine = currentLine(newVM),
                                        !.heap = c.heap, !.state = c.ref]]
    IN  built(parseScript(sh.source))

startRun(sh) ==
    IF sh.source.text = <<>> THEN sh
    ELSE IF sh.parseError # "none" THEN sh
    ELSE
    LET started(b) ==
            IF b.thrown
            THEN [sh EXCEPT !.running = FALSE, !.vm = NullVM, !.activeLine = NoLine,
                            !.parseError = b.message, !.caught = b.message]
            ELSE [b.sh EXCEPT !.running = TRUE, !.parseError = "none",
                              !.activeLine = currentLine(b.vm)]
    IN  started(buildVmFromSource(sh))

stepThrownCommits(cur, nextState, r) ==
    [cur EXCEPT !.heap = write(nextState.heap, nextState.ref, r.s),
                !.state = nextState.ref, !.vm = r.vm,
                !.called = <<"stepVM">>, !.running = FALSE, !.parseError = r.err,
                !.caught = r.err]

stepThrownKeepsRunning(cur, nextState, r) ==
    [cur EXCEPT !.heap = write(nextState.heap, nextState.ref, r.s),
                !.called = <<"stepVM">>, !.parseError = r.err, !.caught = r.err]

\* stepOnce, its catch: stepVM(nextVM, nextState) threw r.err, having left
\* nextState as r.s; setRunning(false); setParseError(message)
stepThrown(cur, nextState, r) ==
    [cur EXCEPT !.heap = write(nextState.heap, nextState.ref, r.s),
                !.called = <<"stepVM">>, !.running = FALSE, !.parseError = r.err,
                !.caught = r.err]

stepReturnedKeepsRunning(cur, nextState, r) ==
    [cur EXCEPT !.heap = write(nextState.heap, nextState.ref, r.s),
                !.called = <<"stepVM">>, !.state = nextState.ref, !.vm = r.vm,
                !.activeLine = IF r.line # NoLine THEN r.line ELSE currentLine(r.vm)]

\* stepOnce after stepVM(nextVM, nextState) returned: setState(nextState);
\* setVM(nextVM); setActiveLine(res.line ?? currentLine(nextVM));
\* if (nextState.won || nextVM.done) setRunning(false)
stepReturned(cur, nextState, r) ==
    [cur EXCEPT !.heap = write(nextState.heap, nextState.ref, r.s),
                !.called = <<"stepVM">>, !.state = nextState.ref, !.vm = r.vm,
                !.activeLine = IF r.line # NoLine THEN r.line ELSE currentLine(r.vm),
                !.running = IF r.s.won \/ r.vm.done THEN FALSE ELSE @]

\* stepOnce: cur holds the set calls issued so far; state is the state of
\* the render the handler was created in
stepOnce(sh) ==
    IF sh.source.text = <<>> \/ sh.parseError # "none" THEN sh
    ELSE
    LET stepped(cur, nextState, r) ==
            IF r.err # "none" THEN stepThrown(cur, nextState, r)
            ELSE stepReturned(cur, nextState, r)
        cloned(cur, curVM, nextState) ==
            stepped(cur, nextState, stepVM(curVM, read(nextState.heap, nextState.ref)))
        step(cur, curVM) ==
            IF curVM.done THEN cur ELSE cloned(cur, curVM, cloneState(cur.heap, sh.state))
        built(b) ==
            IF b.thrown
            THEN [sh EXCEPT !.running = FALSE, !.parseError = b.message, !.caught = b.message]
            ELSE step(b.sh, b.vm)
    IN  IF sh.vm = NullVM THEN built(buildVmFromSource(sh)) ELSE step(sh, sh.vm)

\* applyFileText(text)
applyFileText(sh, file) ==
    LET parsed(p) == [resetToInitial(sh) EXCEPT !.source = file, !.parseError = p.err,
                                               !.caught = p.err]
    IN  parsed(parseScript(file))

\* "Datei entfernen"
removeFile(sh) == [resetToInitial(sh) EXCEPT !.source = NoFile, !.parseError = "none"]

\* Play/Pause: setRunning((r) => !r)
togglePlay(sh) == [sh EXCEPT !.running = ~@]

\* the files dropped on the page: programs that end, win, are blocked or
\* run into the step limit, the empty program, and a text that does not parse
ShellFiles ==
    { [text |-> fileText("brace", <<" ">>, stmts), json |-> J("undefined", <<>>)] :
        stmts \in {ProgForward, ProgSolve, ProgEmpty} }
    \cup { [text |-> fileText("legacy", <<" ">>, ProgForward), json |-> J("undefined", <<>>)] }

\* the page after its first render: baseLevel, initialState a clone of
\* it, state a clone of initialState, no file and no VM
InitShell ==
    /\ \E blocked \in randomBlockedCells(GridW, GridH, RerollCount, {keyXY(0, GridH - 1)}, 0) :
         LET baseLevel == newState(makeDefaultLevel(GridW, GridH, blocked))
             initialState == cloneState(baseLevel, Len(baseLevel))
             state == cloneState(initialState.heap, initialState.ref)
         IN  heap = collect(state.heap, <<initialState.ref, state.ref, Len(baseLevel)>>)
    /\ refs = ShellRefs
    /\ s = read(heap, refs[2])
    /\ s0 = read(heap, refs[1])
    /\ src = NoFile
    /\ parseError = "none"
    /\ vm = NullVM
    /\ running = FALSE
    /\ activeLine = NoLine
    /\ program = <<>>
    /\ op = "init"
    /\ err = "none"
    /\ ret = NoLine
    /\ tw = [k |-> <<>>, s |-> s, err |-> "none"]
    /\ vmTrace = <<>>
    /\ twTrace = <<>>
    /\ vmLines = <<>>
    /\ result = <<>>

\* the render after a handler: its set calls take effect together; s and
\* s0 are state and initialState as read through their references, result
\* the VM calls the handler made, err what its catch received
Render(name, sh) ==
    /\ src' = sh.source
    /\ parseError' = sh.parseError
    /\ vm' = sh.vm
    /\ running' = sh.running
    /\ activeLine' = sh.activeLine
    /\ heap' = collect(sh.heap, <<sh.initialState, sh.state, refs[2]>>)
    /\ refs' = ShellRefs
    /\ s' = read(sh.heap, sh.state)
    /\ s0' = read(sh.heap, sh.initialState)
    /\ op' = name
    /\ result' = sh.called
    /\ err' = sh.caught
    /\ UNCHANGED <<ret, program, refVars>>

\* a file is dropped on the page
LoadFile == \E file \in ShellFiles : Render("applyFileText", applyFileText(Shell, file))

RemoveFile == Render("removeFile", removeFile(Shell))

\* the Start and Step buttons; where the page disables them, the handler
\* returns at its own test of source and parseError
Start == Render("startRun", startRun(Shell))

Step == Render("stepOnce", stepOnce(Shell))

\* Play/Pause, disabled={!vm || !!parseError}
PlayPause ==
    /\ vm # NullVM
    /\ parseError = "none"
    /\ Render("togglePlay", togglePlay(Shell))

\* the interval of the auto-run effect, set only while running with a VM
\* that is not done
AutoPlay ==
    /\ running
    /\ vm # NullVM
    /\ ~vm.done
    /\ Render("autoPlay", stepOnce(Shell))

Reset == Render("resetToInitial", resetToInitial(Shell))

\* "Hindernisse neu": the shuffle picks the blocked cells
Reroll ==
    \E blocks \in randomBlockedCells(s0.world.width, s0.world.height, RerollCount,
                                     {keyXY(s0.robot.x, s0.robot.y)}, 0) :
        Render("reroll", reroll(Shell, blocks))

NextShell ==
    \/ LoadFile
    \/ RemoveFile
    \/ Start
    \/ Step
    \/ PlayPause
    \/ AutoPlay
    \/ Reset
    \/ Reroll

SpecShell == InitShell /\ [][NextShell]_vars

----------------------------------------------------------------------------
(* C29: in the game shell, a stepOnce call that reaches stepVM (from the  *)
(* auto-play interval or the Step button) and leaves the VM done, leaves  *)
(* the state won, or catches a runtime error leaves running false; stepVM  *)
(* is called only while the VM of the run is not done, the state is not    *)
(* won and no error is recorded, so none follows such a step in the same   *)
(* run; and a step that catches an error leaves the state as it was, and   *)
(* the VM as it was when there was one.                                    *)

\* the handler of this step called stepVM
CalledStepVM == op' \in {"stepOnce", "autoPlay"} /\ result' = <<"stepVM">>

C29_AutoPlayHalts ==
    [][CalledStepVM =>
          /\ (vm'.done \/ s'.won \/ err' # "none") => ~running'
          /\ ~vm.done /\ ~s.won /\ parseError = "none"
          /\ err' # "none" => /\ s' = s
                              /\ parseError' = err'
                              /\ vm # NullVM => vm' = vm]_vars

\* an auto-play step has caught a runtime error
C29_Witness ==
    /\ op = "autoPlay"
    /\ result = <<"stepVM">>
    /\ err \in {"MOVE_BLOCKED", "STEP_LIMIT"}
    /\ parseError = err
    /\ ~running
    /\ ~vm.done
    /\ ~s.won

----------------------------------------------------------------------------
(* C30: in the game shell, over every sequence of load-file, remove-file, *)
(* Start, Step, Play/Pause, auto-play, Reset and reroll events: a         *)
(* stepOnce call that reaches stepVM leaves the initial state and the      *)
(* state of the render before, read through their references, as they      *)
(* were; whenever vm is null the state equals the initial state; and       *)
(* Reset leaves state equal to the unchanged initial state, vm null and    *)
(* running false.                                                          *)

C30_StepsOnClones ==
    /\ [](vm = NullVM => read(heap, refs[2]) = read(heap, refs[1]))
    /\ [][/\ CalledStepVM =>
                /\ read(heap', refs'[1]) = read(heap, refs[1])
                /\ read(heap', refs'[3]) = read(heap, refs[2])
          /\ op' = "resetToInitial" =>
                /\ read(heap', refs'[2]) = read(heap, refs[1])
                /\ read(heap', refs'[1]) = read(heap, refs[1])
                /\ vm' = NullVM
                /\ ~running']_vars

\* Reset, pressed while a run that has moved the robot was playing
C30_Witness ==
    /\ op = "resetToInitial"
    /\ read(heap, refs[3]).robot # read(heap, refs[1]).robot
    /\ read(heap, refs[3]).stepCount > 0
    /\ read(heap, refs[2]) = read(heap, refs[1])
    /\ vm = NullVM
    /\ ~running

----------------------------------------------------------------------------
(* C31: over every sequence of engine actions and VM steps from a state   *)
(* whose robot is inside the grid, the robot stays inside the grid,        *)
(* 0 <= x < width and 0 <= y < height, whatever the wall set, the empty    *)
(* one included.                                                           *)

C31_RobotInsideGrid ==
    /\ s.robot.x >= 0 /\ s.robot.x < s.world.width
    /\ s.robot.y >= 0 /\ s.robot.y < s.world.height

\* a forward move off the east edge of a world without any wall was refused
C31_Witness ==
    /\ s.world.walls = {}
    /\ op \in {"cmdMove", "stepVM"}
    /\ err = "MOVE_BLOCKED"
    /\ s.robot.x = s.world.width - 1
    /\ s.robot.dir = "E"
    /\ s.robot # s0.robot

----------------------------------------------------------------------------
(* C32: over every sequence of engine actions and VM steps, those that     *)
(* throw included, the sum of the item counts of all cells plus the        *)
(* robot's bag stays what it was at the start.                             *)

\* the sum of the counts the beeper map holds for the keys in cells
RECURSIVE CountOn(_, _)
CountOn(b, cells) ==
    IF cells = {} THEN 0
    ELSE LET k == CHOOSE c \in cells : TRUE IN b[k] + CountOn(b, cells \ {k})

Items(st) == CountOn(st.world.beepers, DOMAIN st.world.beepers) + st.robot.bag

C32_ItemsConserved == Items(s) = Items(s0)

\* an item has gone from the start cell into the bag, and the next pick on
\* the emptied cell has thrown
C32_Witness ==
    /\ err = "NO_BEEPER_HERE"
    /\ s.robot.bag = s0.robot.bag + 1
    /\ s.robot.x = s0.robot.x /\ s.robot.y = s0.robot.y
    /\ CountHere(s0) = 1
    /\ CountHere(s) = 0
    /\ Items(s) > 0

----------------------------------------------------------------------------
(* C33: for a VM made by makeVM(compile(program)), in every state reached  *)
(* by stepVM calls, those that throw included, pc is never negative and a   *)
(* VM that is not done has pc below the instruction count; so no stepVM     *)
(* call takes the branch for a pc out of range.                             *)

\* stepVM(vm, s) gets past its done and won tests with pc out of range
TakesOutOfRangeBranch ==
    /\ op' = "stepVM"
    /\ ~vm.done
    /\ ~s.won
    /\ (vm.pc < 0 \/ vm.pc >= Len(vm.instr))

C33_PcInRange ==
    /\ [](vm.pc >= 0 /\ (~vm.done => vm.pc < Len(vm.instr)))
    /\ [][~TakesOutOfRangeBranch]_vars

\* a program that ends in an if has run to its end: the branch taken on
\* the false condition left pc at the instruction count and the VM done,
\* the state not won
C33_Witness ==
    /\ op = "stepVM"
    /\ program = ProgBeepers
    /\ s.robot.bag = 0
    /\ vm.pc = Len(vm.instr)
    /\ vm.done
    /\ ~s.won
    /\ err = "none"
    /\ ret # NoLine

----------------------------------------------------------------------------
(* C34: a stepVM call that executes a JMP or a JMP_IF_FALSE, one whose      *)
(* condition asks goalReachable included, leaves the whole Simulation        *)
(* State as it was, stepCount and log included, and throws nothing; a call   *)
(* that executes no instruction leaves it as it was too; a call that         *)
(* executes an ACT adds exactly 1 to stepCount when stepCount < maxSteps,    *)
(* whether the action then succeeds or throws, and leaves the State as it    *)
(* was when the guard throws STEP_LIMIT.                                     *)

\* the instruction stepVM(vm, s) executes, when it executes one
Executed == vm.instr[vm.pc + 1]

C34_OnlyActsUseBudget ==
    [][op' = "stepVM" =>
          /\ ~dispatches(vm, s) => s' = s
          /\ (dispatches(vm, s) /\ Executed.t \in {"JMP", "JMP_IF_FALSE"}) =>
                (s' = s /\ err' = "none")
          /\ (dispatches(vm, s) /\ Executed.t = "ACT") =>
                /\ s.stepCount < s.maxSteps => s'.stepCount = s.stepCount + 1
                /\ s.stepCount >= s.maxSteps => (s' = s /\ err' = "STEP_LIMIT")]_vars

\* the loop on !goalReachable, in an enclosed cell: the branch has entered
\* the body, the turn has used one step of the budget, and the jump back
\* to the condition has used none
C34_Witness ==
    /\ op = "stepVM"
    /\ program = ProgReach
    /\ ~goalReachable(s)
    /\ vm.pc = 0
    /\ ~vm.done
    /\ ret = 1
    /\ s = [s0 EXCEPT !.stepCount = 1, !.robot.dir = turnLeft(s0.robot.dir)]

----------------------------------------------------------------------------
(* C35: no engine action and no stepVM call, whether it succeeds or        *)
(* throws, changes the world's width, height or wall set, or maxSteps.      *)

C35_WorldFrame ==
    [][/\ s'.world.width = s.world.width
       /\ s'.world.height = s.world.height
       /\ s'.world.walls = s.world.walls
       /\ s'.maxSteps = s.maxSteps]_vars

\* the robot has moved, an item has changed cells, and the last call has
\* thrown at the step limit, in a world with walls inside the border
C35_Witness ==
    /\ err = "STEP_LIMIT"
    /\ s.stepCount = s.maxSteps
    /\ (s.robot.x # s0.robot.x \/ s.robot.y # s0.robot.y)
    /\ s.world.beepers # s0.world.beepers
    /\ s.world.walls # BorderWalls
    /\ BorderWalls \subseteq s.world.walls
    /\ s.world.walls = s0.world.walls

----------------------------------------------------------------------------
(* C36: goalReachable agrees with what the engine's moves can do.  If       *)
(* goalReachable(s) is false, no sequence of engine actions from s,          *)
(* failing ones included, makes won true; if goalReachable(s) is true and    *)
(* the robot is not in row 0, some sequence of successful turns and          *)
(* forward moves, each with step budget left, ends with won true in row 0.   *)

\* the state with its step budget unused
Rested(st) == [st EXCEPT !.stepCount = 0]

\* the states that sequences of the engine actions acts lead to from
\* states, a thrown action ending the sequence unless withFailed; every
\* action is called with budget left
RECURSIVE Walked(_, _, _)
Walked(states, acts, withFailed) ==
    LET results == { execAct(a, st) : a \in acts, st \in states }
        kept == { r \in results : withFailed \/ r.err = "none" }
        next == states \cup { Rested(r.s) : r \in kept }
    IN  IF next = states THEN states ELSE Walked(next, acts, withFailed)

C36_ReachableIffWinnable ==
    op = "goalReachable" =>
        /\ ~result.found =>
              \A w \in Walked({Rested(s)}, EngineActs, TRUE) : ~w.won
        /\ (result.found /\ s.robot.y # 0) =>
              \E w \in Walked({Rested(s)}, {"forward", "turnLeft", "turnRight"}, FALSE) :
                  w.won /\ w.robot.y = 0

\* the win row is reachable, but only round a wall: the way ahead is
\* closed and the robot is in the bottom row
C36_Witness ==
    /\ op = "goalReachable"
    /\ result.found
    /\ s.robot.y = GridH - 1
    /\ ~isFrontClear(s)
    /\ Cardinality(s.world.walls \ BorderWalls) = MaxWalls
    /\ \E w \in Walked({Rested(s)}, {"forward", "turnLeft", "turnRight"}, FALSE) : w.won

----------------------------------------------------------------------------
(* C37: when only stepVM is called, from a state with won = false, an       *)
(* empty log and the robot outside row 0, won is true exactly when the       *)
(* robot is in row 0, in every state reached; and won changes only in a      *)
(* stepVM call that executes a forward action that succeeds, never in a      *)
(* turn, pick, put, jump or branch step.                                     *)

StartsOutsideWinRow == ~s0.won /\ s0.log = <<>> /\ s0.robot.y # 0

C37_WonIffInWinRow ==
    /\ [](StartsOutsideWinRow => (s.won <=> s.robot.y = 0))
    /\ [][(StartsOutsideWinRow /\ s'.won # s.won) =>
              /\ StepsAct
              /\ Executed.act = "forward"
              /\ err' = "none"
              /\ s'.won
              /\ s'.robot.y = 0 /\ s.robot.y = 1]_vars

\* a run that turned before the move into row 0
C37_Witness ==
    /\ StartsOutsideWinRow
    /\ op = "stepVM"
    /\ s.won
    /\ s.robot.y = 0
    /\ s.robot.x # s0.robot.x
    /\ s.stepCount = 3
    /\ vm.done

----------------------------------------------------------------------------
(* C38: in the game shell, while the error recorded is one that a step    *)
(* raised at run time, running is false; Start and Step change nothing of  *)
(* the page and call nothing, no handler calls stepVM, and the error stays  *)
(* recorded until a file is loaded or the file is removed; Reset leaves the *)
(* state equal to the unchanged initial state, the VM null and running      *)
(* false, and the error recorded.                                           *)

\* the codes of the errors the engine throws, as stepOnce's catch records them
RuntimeErrorRecorded ==
    parseError \in {"MOVE_BLOCKED", "STEP_LIMIT", "NO_BEEPER_HERE", "NO_BEEPER_IN_BAG"}

C38_ErrorLocksRun ==
    /\ [](RuntimeErrorRecorded => ~running)
    /\ [][RuntimeErrorRecorded =>
            /\ op' \in {"startRun", "stepOnce"} =>
                  /\ UNCHANGED <<src, parseError, vm, running, activeLine, s, s0>>
                  /\ read(heap', refs'[2]) = read(heap, refs[2])
                  /\ read(heap', refs'[1]) = read(heap, refs[1])
                  /\ result' = <<>>
                  /\ err' = "none"
            /\ ~CalledStepVM
            /\ op' # "autoPlay"
            /\ op' \notin {"applyFileText", "removeFile"} => parseError' = parseError
            /\ op' = "resetToInitial" =>
                  /\ s' = s0
                  /\ s0' = s0
                  /\ vm' = NullVM
                  /\ ~running']_vars

\* Step, pressed after a run that moved the robot ended in a runtime error
\* and Reset was pressed: no VM is built and the state stays the initial one
C38_Witness ==
    /\ op = "stepOnce"
    /\ RuntimeErrorRecorded
    /\ result = <<>>
    /\ err = "none"
    /\ vm = NullVM
    /\ s = s0
    /\ src # NoFile
    /\ ~running

====
